---------------------------- MODULE Spec2Model ----------------------------
(***************************************************************************)
(* ReportRunner/prompt_suite.py: the report-block generation suite.        *)
(*                                                                         *)
(* build_all_generation_tasks expands the configuration tables into the    *)
(* task catalog, generate_all_blocks runs every task through               *)
(* generate_block under an asyncio.Semaphore and collects the results in   *)
(* completion order, and main wires them together.                         *)
(*                                                                         *)
(* Strings.  A string the code looks into (names, block types, output      *)
(* keys, ranges, the literal prefixes of messages) is a sequence of        *)
(* one-character strings, so that lower(), replace(), slicing and          *)
(* startswith() are computed character by character.  Text the code only   *)
(* copies (prose fields of the tables, the text an exception or the        *)
(* service returns) is one atomic string; where such text is formatted     *)
(* into a message it is a single element of the resulting sequence.        *)
(* Parameter names are record field names, as they are dict keys in the    *)
(* source.                                                                 *)
(***************************************************************************)
EXTENDS Integers, Sequences, FiniteSets, TLC

VARIABLES
  tables,          \* the module-level configuration tables read by the code
  pc,              \* position of the caller: main / generate_all_blocks
  main_tasks,      \* main's local `tasks` (line 1672)
  max_concurrent,  \* generate_all_blocks' argument
  tasks,           \* generate_all_blocks' local `tasks` (line 1594)
  st,              \* per launched generate_block task: its position
  sem_value,       \* asyncio.Semaphore: free permits
  waiters,         \* asyncio.Semaphore: FIFO of tasks blocked in acquire
  response,        \* per task: what client.messages.create did for it
  ret,             \* per task: the value generate_block returned
  done,            \* as_completed: task indices in completion order
  results,         \* generate_all_blocks' local `results`
  progress,        \* the "Completed i/K" lines printed so far (the counts)
  organized,       \* what organize_results returned (line 1698)
  report_file,     \* the content of report_blocks.json
  confirm,         \* main's local `confirm`: what input() returned (line 1686)
  console          \* the lines main has printed since input() returned

vars == <<tables, pc, main_tasks, max_concurrent, tasks, st, sem_value,
          waiters, response, ret, done, results, progress, organized,
          report_file, confirm, console>>

None == "None"

\* str.lower(), on the ASCII letters the tables use.
UpperCase == <<"A","B","C","D","E","F","G","H","I","J","K","L","M",
               "N","O","P","Q","R","S","T","U","V","W","X","Y","Z">>

LowerCase == <<"a","b","c","d","e","f","g","h","i","j","k","l","m",
               "n","o","p","q","r","s","t","u","v","w","x","y","z">>

lower_char(c) ==
  IF \E i \in 1..Len(UpperCase) : UpperCase[i] = c
    THEN LowerCase[CHOOSE i \in 1..Len(UpperCase) : UpperCase[i] = c]
    ELSE c

lower(s) == [i \in 1..Len(s) |-> lower_char(s[i])]

\* str.replace(old, new) for a one-character `old`, as at every call site.
RECURSIVE replace(_, _, _)
replace(s, old, new) ==
  IF s = <<>> THEN <<>>
  ELSE (IF Head(s) = old THEN new ELSE <<Head(s)>>) \o replace(Tail(s), old, new)

\* s[:n]
slice_to(s, n) == SubSeq(s, 1, IF Len(s) < n THEN Len(s) ELSE n)

\* s.startswith(prefix)
startswith(s, prefix) ==
  Len(s) >= Len(prefix) /\ SubSeq(s, 1, Len(prefix)) = prefix

Digits == <<"0","1","2","3","4","5","6","7","8","9">>

\* str(n) of a non-negative int, as an f-string formats it.
RECURSIVE str(_)
str(n) ==
  IF n < 10 THEN <<Digits[n + 1]>>
  ELSE str(n \div 10) \o <<Digits[(n % 10) + 1]>>

\* sep.join(parts)
RECURSIVE join(_, _)
join(sep, parts) ==
  IF parts = <<>> THEN <<>>
  ELSE IF Len(parts) = 1 THEN parts[1]
  ELSE parts[1] \o sep \o join(sep, Tail(parts))

\* Concatenation of a sequence of sequences, in order.
RECURSIVE Flatten(_)
Flatten(ss) == IF ss = <<>> THEN <<>> ELSE Head(ss) \o Flatten(Tail(ss))

\* The empty dict {}.
EmptyParams == <<>>

(***************************************************************************)
(* DATA DEFINITIONS (lines 1049-1363) and the literals of                  *)
(* build_all_generation_tasks, as shipped.  In the prose fields the three  *)
(* non-ASCII characters of the source are written in ASCII: the dash as    *)
(* "--", the arrow as "->", the euro sign as "EUR ".                       *)
(***************************************************************************)
\* INDUSTRIES (lines 1053-1138): name and factors of each industry.
INDUSTRIES ==
  <<
     \* Food & Beverage
     [name |-> <<"F","o","o","d"," ","&"," ","B","e","v","e","r","a","g","e">>,
      factors |-> "\n- Inventory turnover: 8-15x per year (highest of all sectors)\n- Spoilage/obsolescence: +30-50% above baseline risk\n- Forecasting ROI: +20-30% above baseline due to perishability\n- Key challenge: Balancing freshness with availability\n- Example companies: Sunsweet (30% spoilage reduction), Walmart ($86M food waste savings)\n- Temperature-controlled logistics adds complexity\n- Promotional volatility higher than other sectors\n"],
     \* Industrial Distribution
     [name |-> <<"I","n","d","u","s","t","r","i","a","l"," ","D","i","s","t","r","i","b","u","t","i","o","n">>,
      factors |-> "\n- Inventory turnover: 2-4x per year (slowest, highest value per SKU)\n- Demand patterns: Stable, predictable, project-driven\n- Lead times: Often 4-12 weeks from international suppliers\n- Forecast benefits: -10-15% vs baseline (stable demand means less forecast value)\n- Supplier optimization: +20-25% above baseline (long lead times = bigger impact)\n- Carrying costs: 25-35% of inventory value (higher due to capital intensity)\n- Example: Sparex ($5M savings through supplier visibility)\n"],
     \* Retail/E-commerce
     [name |-> <<"R","e","t","a","i","l","/","E","-","c","o","m","m","e","r","c","e">>,
      factors |-> "\n- Fulfillment speed: Sub-24 hour expectations\n- Returns rate: 16.5-17.9% (online), highest of all sectors\n- Warehouse optimization: +25-35% ROI above baseline\n- Obsolescence risk: +20-30% for fashion/seasonal segments\n- Order complexity: Multi-channel, split shipments, click-and-collect\n- Peak seasonality: 30-40% of volume in Q4\n- Real-time visibility critical for available-to-promise\n"],
     \* Pharmaceutical
     [name |-> <<"P","h","a","r","m","a","c","e","u","t","i","c","a","l">>,
      factors |-> "\n- Service level requirements: >98% (regulatory mandated)\n- Serialization/track-trace: Required for compliance\n- Automation benefits: -10-20% vs baseline (regulatory constraints limit flexibility)\n- Cold chain: Adds 15-25% to logistics costs\n- Shelf life management: Critical for compliance\n- Logistics costs: ~2% of sales, 7-8% of COGS (lower due to outsourcing)\n- Risk/compliance: Higher weighting than other sectors\n"],
     \* Technology/Electronics
     [name |-> <<"T","e","c","h","n","o","l","o","g","y","/","E","l","e","c","t","r","o","n","i","c","s">>,
      factors |-> "\n- Product lifecycle: 12-18 months (rapid obsolescence)\n- Obsolescence risk: HIGHEST priority -- 1pp over-forecast = $1.58M loss\n- Forecast accuracy: >95% target (critical for component planning)\n- Example: Lenovo (20% surplus inventory reduction, 25% forecast accuracy gain)\n- Component lead times: Highly variable (chip shortages)\n- Reverse logistics: Growing importance (sustainability, refurbishment)\n- New product introduction: Frequent, high-stakes inventory positioning\n"],
     \* Fashion/Apparel
     [name |-> <<"F","a","s","h","i","o","n","/","A","p","p","a","r","e","l">>,
      factors |-> "\n- Product lifecycle: 6-12 weeks (fastest turns)\n- Obsolescence rate: 20-30% of inventory without controls\n- Markdown strategy: Critical -- typical 10%/20%/50% at 30/60/90 days\n- Key solutions: Obsolescence control, demand forecasting, SKU rationalization\n- Size/color proliferation: Compounds inventory complexity\n- Seasonality: Extreme (2-4 major seasons)\n- Return rates: 15-20% for online\n"],
     \* CPG
     [name |-> <<"C","P","G">>,
      factors |-> "\n- Baseline/reference industry for model calibration\n- Standard multipliers apply\n- Promotional lift: 3-5x baseline during promotions\n- Trade spend optimization: Adjacent opportunity\n- Demand sensing: Real-time POS data increasingly available\n- Retailer collaboration: VMI/CPFR programs common\n- Example: P&G ($1B savings through SKU rationalization)\n"]
  >>

\* SOLUTIONS (lines 1140-1195).
SOLUTIONS ==
  <<
     \* Demand Forecasting AI
     [name |-> <<"D","e","m","a","n","d"," ","F","o","r","e","c","a","s","t","i","n","g"," ","A","I">>,
      roi_timeline |-> "12-18 months",
      primary_impacts |-> "Returns/Obsolescence, Inventory Carrying",
      sources |-> "McKinsey (50% error reduction), Sunsweet (30% spoilage reduction), Lenovo (25% accuracy improvement), IBM AI studies"],
     \* Inventory Planning & Replenishment
     [name |-> <<"I","n","v","e","n","t","o","r","y"," ","P","l","a","n","n","i","n","g"," ","&"," ","R","e","p","l","e","n","i","s","h","m","e","n","t">>,
      roi_timeline |-> "12-18 months",
      primary_impacts |-> "Returns/Obsolescence, Inventory Carrying, Order Processing",
      sources |-> "McKinsey Supply Chain 4.0 (-35% inventory), IDC (25% reduction in one year), Bain distribution studies"],
     \* Supplier Lead Time & Reliability
     [name |-> <<"S","u","p","p","l","i","e","r"," ","L","e","a","d"," ","T","i","m","e"," ","&"," ","R","e","l","i","a","b","i","l","i","t","y">>,
      roi_timeline |-> "12-18 months",
      primary_impacts |-> "Warehousing, Inventory Carrying, Risk/Compliance",
      sources |-> "Sparex ($5M savings, 20% transportation reduction), Gartner (20% logistics reduction), KPMG supplier studies"],
     \* SKU Rationalization Analytics
     [name |-> <<"S","K","U"," ","R","a","t","i","o","n","a","l","i","z","a","t","i","o","n"," ","A","n","a","l","y","t","i","c","s">>,
      roi_timeline |-> "90 days - 18 months",
      primary_impacts |-> "Returns/Obsolescence, Inventory Carrying, Warehousing",
      sources |-> "P&G ($1B savings), Mattel ($797M over 2 years), Distributor case study (bottom 36% SKUs = 3% sales)"],
     \* Warehouse Layout & Slotting
     [name |-> <<"W","a","r","e","h","o","u","s","e"," ","L","a","y","o","u","t"," ","&"," ","S","l","o","t","t","i","n","g">>,
      roi_timeline |-> "4-6 weeks",
      primary_impacts |-> "Warehousing, Order Processing",
      sources |-> "Plant Therapy (300% productivity), GEODIS (15-60% efficiency), enVista (5-15% pick improvement), FORTNA"],
     \* Cycle Counting & Inventory Accuracy
     [name |-> <<"C","y","c","l","e"," ","C","o","u","n","t","i","n","g"," ","&"," ","I","n","v","e","n","t","o","r","y"," ","A","c","c","u","r","a","c","y">>,
      roi_timeline |-> "2-3 months",
      primary_impacts |-> "Warehousing, Order Processing, Returns/Obsolescence",
      sources |-> "Vimaan (75% labor reduction, 100% accuracy), Auburn RFID Lab (70%->95% accuracy), WERC benchmarks"],
     \* Order Pattern Optimization
     [name |-> <<"O","r","d","e","r"," ","P","a","t","t","e","r","n"," ","O","p","t","i","m","i","z","a","t","i","o","n">>,
      roi_timeline |-> "6-12 months",
      primary_impacts |-> "Order Processing, Warehousing, Sales/Marketing",
      sources |-> "Gartner (40% manual reduction), KIBO (30% CS cost reduction), Komar case (8 hours -> 8 minutes)"],
     \* Inventory Visibility & Real-Time Data
     [name |-> <<"I","n","v","e","n","t","o","r","y"," ","V","i","s","i","b","i","l","i","t","y"," ","&"," ","R","e","a","l","-","T","i","m","e"," ","D","a","t","a">>,
      roi_timeline |-> "12-18 months",
      primary_impacts |-> "Order Processing, Warehousing, Risk/Compliance",
      sources |-> "McKinsey (35% stockout reduction), 93% cost savings survey, RFID/IoT research"],
     \* Obsolescence & Aging Control
     [name |-> <<"O","b","s","o","l","e","s","c","e","n","c","e"," ","&"," ","A","g","i","n","g"," ","C","o","n","t","r","o","l">>,
      roi_timeline |-> "6-12 months",
      primary_impacts |-> "Returns/Obsolescence, Inventory Carrying",
      sources |-> "Race Winning Brands (EUR 3.5M excess eliminated), Avery Dennison (8% perish rate -> <3% target)"]
  >>

\* CATEGORIES (lines 1197-1233).
CATEGORIES ==
  <<
     \* Inventory Carrying Cost
     [name |-> <<"I","n","v","e","n","t","o","r","y"," ","C","a","r","r","y","i","n","g"," ","C","o","s","t">>,
      benchmark_range |-> "2.5-4% of revenue",
      cost_components |-> "Cost of capital, storage costs, insurance, shrinkage, obsolescence risk, handling"],
     \* Warehousing & Logistics
     [name |-> <<"W","a","r","e","h","o","u","s","i","n","g"," ","&"," ","L","o","g","i","s","t","i","c","s">>,
      benchmark_range |-> "5-10% of revenue",
      cost_components |-> "Facility costs, labor (picking/packing/shipping), equipment, transportation, 3PL fees"],
     \* Sales/Marketing/Customer Service
     [name |-> <<"S","a","l","e","s","/","M","a","r","k","e","t","i","n","g","/","C","u","s","t","o","m","e","r"," ","S","e","r","v","i","c","e">>,
      benchmark_range |-> "6-12% of revenue",
      cost_components |-> "Customer acquisition, retention programs, service center operations, returns processing"],
     \* Order Processing & Back-Office
     [name |-> <<"O","r","d","e","r"," ","P","r","o","c","e","s","s","i","n","g"," ","&"," ","B","a","c","k","-","O","f","f","i","c","e">>,
      benchmark_range |-> "3-6% of revenue",
      cost_components |-> "Order entry, invoicing, exception handling, EDI/integration, customer communication"],
     \* Returns/Obsolescence/Shrinkage
     [name |-> <<"R","e","t","u","r","n","s","/","O","b","s","o","l","e","s","c","e","n","c","e","/","S","h","r","i","n","k","a","g","e">>,
      benchmark_range |-> "1-4% of revenue",
      cost_components |-> "Returned goods processing, markdown losses, write-offs, disposal, shrinkage/theft"],
     \* IT Costs (Supply Chain)
     [name |-> <<"I","T"," ","C","o","s","t","s"," ","(","S","u","p","p","l","y"," ","C","h","a","i","n",")">>,
      benchmark_range |-> "1.5-4% of revenue",
      cost_components |-> "ERP/WMS licenses, integration costs, maintenance, development, cloud infrastructure"],
     \* Risk & Compliance
     [name |-> <<"R","i","s","k"," ","&"," ","C","o","m","p","l","i","a","n","c","e">>,
      benchmark_range |-> "0.5-2% of revenue",
      cost_components |-> "Audit costs, regulatory compliance, insurance, quality control, traceability systems"]
  >>

\* SYNERGY_PAIRS (lines 1235-1265): (solution A, solution B, interaction, description).
SYNERGY_PAIRS ==
  <<
     \* Demand Forecasting AI / Inventory Planning & Replenishment
     <<<<"D","e","m","a","n","d"," ","F","o","r","e","c","a","s","t","i","n","g"," ","A","I">>,
       <<"I","n","v","e","n","t","o","r","y"," ","P","l","a","n","n","i","n","g"," ","&"," ","R","e","p","l","e","n","i","s","h","m","e","n","t">>,
       "amplifying",
       "Forecasting provides the demand signal that Planning uses to optimize. Better forecasts -> more aggressive inventory policies without service risk.">>,
     \* Warehouse Layout & Slotting / Cycle Counting & Inventory Accuracy
     <<<<"W","a","r","e","h","o","u","s","e"," ","L","a","y","o","u","t"," ","&"," ","S","l","o","t","t","i","n","g">>,
       <<"C","y","c","l","e"," ","C","o","u","n","t","i","n","g"," ","&"," ","I","n","v","e","n","t","o","r","y"," ","A","c","c","u","r","a","c","y">>,
       "amplifying",
       "Accurate inventory data enables optimal slotting. Slotting improvements increase count efficiency. Virtuous cycle.">>,
     \* SKU Rationalization Analytics / Obsolescence & Aging Control
     <<<<"S","K","U"," ","R","a","t","i","o","n","a","l","i","z","a","t","i","o","n"," ","A","n","a","l","y","t","i","c","s">>,
       <<"O","b","s","o","l","e","s","c","e","n","c","e"," ","&"," ","A","g","i","n","g"," ","C","o","n","t","r","o","l">>,
       "overlapping",
       "Both target inventory quality. Rationalization prevents future obsolescence; Aging Control manages current exposure. Some benefit overlap.">>,
     \* Inventory Visibility & Real-Time Data / Order Pattern Optimization
     <<<<"I","n","v","e","n","t","o","r","y"," ","V","i","s","i","b","i","l","i","t","y"," ","&"," ","R","e","a","l","-","T","i","m","e"," ","D","a","t","a">>,
       <<"O","r","d","e","r"," ","P","a","t","t","e","r","n"," ","O","p","t","i","m","i","z","a","t","i","o","n">>,
       "sequential",
       "Visibility provides the data foundation. Order optimization uses that data to improve fulfillment. Must sequence correctly.">>,
     \* Demand Forecasting AI / Obsolescence & Aging Control
     <<<<"D","e","m","a","n","d"," ","F","o","r","e","c","a","s","t","i","n","g"," ","A","I">>,
       <<"O","b","s","o","l","e","s","c","e","n","c","e"," ","&"," ","A","g","i","n","g"," ","C","o","n","t","r","o","l">>,
       "sequential",
       "Forecasting prevents over-ordering. Aging Control manages existing excess. Together they address both prevention and cure.">>,
     \* Inventory Planning & Replenishment / Supplier Lead Time & Reliability
     <<<<"I","n","v","e","n","t","o","r","y"," ","P","l","a","n","n","i","n","g"," ","&"," ","R","e","p","l","e","n","i","s","h","m","e","n","t">>,
       <<"S","u","p","p","l","i","e","r"," ","L","e","a","d"," ","T","i","m","e"," ","&"," ","R","e","l","i","a","b","i","l","i","t","y">>,
       "amplifying",
       "Better supplier data enables tighter planning parameters. Reliable suppliers allow lower safety stock. Multiplicative effect.">>,
     \* Warehouse Layout & Slotting / Order Pattern Optimization
     <<<<"W","a","r","e","h","o","u","s","e"," ","L","a","y","o","u","t"," ","&"," ","S","l","o","t","t","i","n","g">>,
       <<"O","r","d","e","r"," ","P","a","t","t","e","r","n"," ","O","p","t","i","m","i","z","a","t","i","o","n">>,
       "amplifying",
       "Slotting optimizes physical layout. Order optimization improves logical fulfillment. Together they maximize throughput.">>,
     \* Cycle Counting & Inventory Accuracy / Inventory Visibility & Real-Time Data
     <<<<"C","y","c","l","e"," ","C","o","u","n","t","i","n","g"," ","&"," ","I","n","v","e","n","t","o","r","y"," ","A","c","c","u","r","a","c","y">>,
       <<"I","n","v","e","n","t","o","r","y"," ","V","i","s","i","b","i","l","i","t","y"," ","&"," ","R","e","a","l","-","T","i","m","e"," ","D","a","t","a">>,
       "sequential",
       "Counting establishes accuracy baseline. Visibility maintains it in real-time. Foundation then scale.">>,
     \* SKU Rationalization Analytics / Demand Forecasting AI
     <<<<"S","K","U"," ","R","a","t","i","o","n","a","l","i","z","a","t","i","o","n"," ","A","n","a","l","y","t","i","c","s">>,
       <<"D","e","m","a","n","d"," ","F","o","r","e","c","a","s","t","i","n","g"," ","A","I">>,
       "amplifying",
       "Fewer SKUs = easier to forecast. Better forecasts inform rationalization decisions. Reinforcing loop.">>,
     \* Supplier Lead Time & Reliability / Inventory Visibility & Real-Time Data
     <<<<"S","u","p","p","l","i","e","r"," ","L","e","a","d"," ","T","i","m","e"," ","&"," ","R","e","l","i","a","b","i","l","i","t","y">>,
       <<"I","n","v","e","n","t","o","r","y"," ","V","i","s","i","b","i","l","i","t","y"," ","&"," ","R","e","a","l","-","T","i","m","e"," ","D","a","t","a">>,
       "amplifying",
       "Supplier visibility enables proactive exception management. Reliability data improves planning parameters.">>
  >>

\* RISK_TOLERANCES (lines 1267-1271).
RISK_TOLERANCES ==
  <<
     [name |-> <<"C","o","n","s","e","r","v","a","t","i","v","e">>, discount |-> 70, cap |-> 20],   \* Conservative
     [name |-> <<"M","o","d","e","r","a","t","e">>, discount |-> 80, cap |-> 40],   \* Moderate
     [name |-> <<"A","g","g","r","e","s","s","i","v","e">>, discount |-> 85, cap |-> 60]   \* Aggressive
  >>

\* COMPLEXITY_LEVELS (line 1273).
COMPLEXITY_LEVELS ==
  <<<<"L","o","w">>, <<"M","e","d","i","u","m">>, <<"H","i","g","h">>>>   \* Low, Medium, High

\* IMPACT_MATRIX (lines 1281-1363): solution -> category -> {type, cons, mod, agg},
\* a dict of dicts, kept as sequences in insertion order.
IMPACT_MATRIX ==
  <<
     \* Demand Forecasting AI
     [solution |-> <<"D","e","m","a","n","d"," ","F","o","r","e","c","a","s","t","i","n","g"," ","A","I">>,
      categories |-> <<
         \* Inventory Carrying Cost: TERTIARY
         [category |-> <<"I","n","v","e","n","t","o","r","y"," ","C","a","r","r","y","i","n","g"," ","C","o","s","t">>,
          data |-> [type |-> <<"T","E","R","T","I","A","R","Y">>, cons |-> <<"-","3","%"," ","t","o"," ","-","5","%">>,
                    mod |-> <<"-","5","%"," ","t","o"," ","-","8","%">>, agg |-> <<"-","1","0","%"," ","t","o"," ","-","1","5","%">>]],
         \* Warehousing & Logistics: TERTIARY
         [category |-> <<"W","a","r","e","h","o","u","s","i","n","g"," ","&"," ","L","o","g","i","s","t","i","c","s">>,
          data |-> [type |-> <<"T","E","R","T","I","A","R","Y">>, cons |-> <<"-","2","%"," ","t","o"," ","-","3","%">>,
                    mod |-> <<"-","3","%"," ","t","o"," ","-","5","%">>, agg |-> <<"-","5","%"," ","t","o"," ","-","8","%">>]],
         \* Sales/Marketing/Customer Service: TERTIARY
         [category |-> <<"S","a","l","e","s","/","M","a","r","k","e","t","i","n","g","/","C","u","s","t","o","m","e","r"," ","S","e","r","v","i","c","e">>,
          data |-> [type |-> <<"T","E","R","T","I","A","R","Y">>, cons |-> <<"+","1","%"," ","t","o"," ","+","2","%">>,
                    mod |-> <<"+","2","%"," ","t","o"," ","+","3","%">>, agg |-> <<"+","3","%"," ","t","o"," ","+","5","%">>]],
         \* Order Processing & Back-Office: TERTIARY
         [category |-> <<"O","r","d","e","r"," ","P","r","o","c","e","s","s","i","n","g"," ","&"," ","B","a","c","k","-","O","f","f","i","c","e">>,
          data |-> [type |-> <<"T","E","R","T","I","A","R","Y">>, cons |-> <<"-","2","%"," ","t","o"," ","-","3","%">>,
                    mod |-> <<"-","3","%"," ","t","o"," ","-","5","%">>, agg |-> <<"-","5","%"," ","t","o"," ","-","7","%">>]],
         \* Returns/Obsolescence/Shrinkage: SECONDARY
         [category |-> <<"R","e","t","u","r","n","s","/","O","b","s","o","l","e","s","c","e","n","c","e","/","S","h","r","i","n","k","a","g","e">>,
          data |-> [type |-> <<"S","E","C","O","N","D","A","R","Y">>, cons |-> <<"-","5","%"," ","t","o"," ","-","8","%">>,
                    mod |-> <<"-","1","0","%"," ","t","o"," ","-","1","5","%">>, agg |-> <<"-","1","5","%"," ","t","o"," ","-","2","5","%">>]],
         \* IT Costs (Supply Chain): MINIMAL
         [category |-> <<"I","T"," ","C","o","s","t","s"," ","(","S","u","p","p","l","y"," ","C","h","a","i","n",")">>,
          data |-> [type |-> <<"M","I","N","I","M","A","L">>, cons |-> <<"0","%">>,
                    mod |-> <<"0","%">>, agg |-> <<"0","%">>]],
         \* Risk & Compliance: TERTIARY
         [category |-> <<"R","i","s","k"," ","&"," ","C","o","m","p","l","i","a","n","c","e">>,
          data |-> [type |-> <<"T","E","R","T","I","A","R","Y">>, cons |-> <<"-","2","%"," ","t","o"," ","-","3","%">>,
                    mod |-> <<"-","3","%"," ","t","o"," ","-","5","%">>, agg |-> <<"-","5","%"," ","t","o"," ","-","8","%">>]]
      >>],
     \* Inventory Planning & Replenishment
     [solution |-> <<"I","n","v","e","n","t","o","r","y"," ","P","l","a","n","n","i","n","g"," ","&"," ","R","e","p","l","e","n","i","s","h","m","e","n","t">>,
      categories |-> <<
         \* Inventory Carrying Cost: SECONDARY
         [category |-> <<"I","n","v","e","n","t","o","r","y"," ","C","a","r","r","y","i","n","g"," ","C","o","s","t">>,
          data |-> [type |-> <<"S","E","C","O","N","D","A","R","Y">>, cons |-> <<"-","5","%"," ","t","o"," ","-","1","0","%">>,
                    mod |-> <<"-","1","0","%"," ","t","o"," ","-","2","0","%">>, agg |-> <<"-","2","0","%"," ","t","o"," ","-","3","5","%">>]],
         \* Warehousing & Logistics: TERTIARY
         [category |-> <<"W","a","r","e","h","o","u","s","i","n","g"," ","&"," ","L","o","g","i","s","t","i","c","s">>,
          data |-> [type |-> <<"T","E","R","T","I","A","R","Y">>, cons |-> <<"-","3","%"," ","t","o"," ","-","5","%">>,
                    mod |-> <<"-","5","%"," ","t","o"," ","-","1","0","%">>, agg |-> <<"-","1","0","%"," ","t","o"," ","-","1","5","%">>]],
         \* Sales/Marketing/Customer Service: TERTIARY
         [category |-> <<"S","a","l","e","s","/","M","a","r","k","e","t","i","n","g","/","C","u","s","t","o","m","e","r"," ","S","e","r","v","i","c","e">>,
          data |-> [type |-> <<"T","E","R","T","I","A","R","Y">>, cons |-> <<"0","%"," ","t","o"," ","+","2","%">>,
                    mod |-> <<"+","2","%"," ","t","o"," ","+","5","%">>, agg |-> <<"+","5","%"," ","t","o"," ","+","1","0","%">>]],
         \* Order Processing & Back-Office: SECONDARY
         [category |-> <<"O","r","d","e","r"," ","P","r","o","c","e","s","s","i","n","g"," ","&"," ","B","a","c","k","-","O","f","f","i","c","e">>,
          data |-> [type |-> <<"S","E","C","O","N","D","A","R","Y">>, cons |-> <<"-","5","%"," ","t","o"," ","-","8","%">>,
                    mod |-> <<"-","8","%"," ","t","o"," ","-","1","2","%">>, agg |-> <<"-","1","2","%"," ","t","o"," ","-","2","0","%">>]],
         \* Returns/Obsolescence/Shrinkage: PRIMARY
         [category |-> <<"R","e","t","u","r","n","s","/","O","b","s","o","l","e","s","c","e","n","c","e","/","S","h","r","i","n","k","a","g","e">>,
          data |-> [type |-> <<"P","R","I","M","A","R","Y">>, cons |-> <<"-","1","0","%"," ","t","o"," ","-","1","5","%">>,
                    mod |-> <<"-","1","5","%"," ","t","o"," ","-","2","5","%">>, agg |-> <<"-","2","5","%"," ","t","o"," ","-","4","0","%">>]],
         \* IT Costs (Supply Chain): MINIMAL
         [category |-> <<"I","T"," ","C","o","s","t","s"," ","(","S","u","p","p","l","y"," ","C","h","a","i","n",")">>,
          data |-> [type |-> <<"M","I","N","I","M","A","L">>, cons |-> <<"0","%">>,
                    mod |-> <<"0","%">>, agg |-> <<"0","%">>]],
         \* Risk & Compliance: TERTIARY
         [category |-> <<"R","i","s","k"," ","&"," ","C","o","m","p","l","i","a","n","c","e">>,
          data |-> [type |-> <<"T","E","R","T","I","A","R","Y">>, cons |-> <<"-","3","%"," ","t","o"," ","-","5","%">>,
                    mod |-> <<"-","5","%"," ","t","o"," ","-","8","%">>, agg |-> <<"-","8","%"," ","t","o"," ","-","1","2","%">>]]
      >>],
     \* Supplier Lead Time & Reliability
     [solution |-> <<"S","u","p","p","l","i","e","r"," ","L","e","a","d"," ","T","i","m","e"," ","&"," ","R","e","l","i","a","b","i","l","i","t","y">>,
      categories |-> <<
         \* Inventory Carrying Cost: SECONDARY
         [category |-> <<"I","n","v","e","n","t","o","r","y"," ","C","a","r","r","y","i","n","g"," ","C","o","s","t">>,
          data |-> [type |-> <<"S","E","C","O","N","D","A","R","Y">>, cons |-> <<"-","8","%"," ","t","o"," ","-","1","2","%">>,
                    mod |-> <<"-","1","2","%"," ","t","o"," ","-","1","8","%">>, agg |-> <<"-","1","8","%"," ","t","o"," ","-","2","5","%">>]],
         \* Warehousing & Logistics: SECONDARY
         [category |-> <<"W","a","r","e","h","o","u","s","i","n","g"," ","&"," ","L","o","g","i","s","t","i","c","s">>,
          data |-> [type |-> <<"S","E","C","O","N","D","A","R","Y">>, cons |-> <<"-","1","0","%"," ","t","o"," ","-","1","5","%">>,
                    mod |-> <<"-","1","5","%"," ","t","o"," ","-","2","0","%">>, agg |-> <<"-","2","0","%"," ","t","o"," ","-","2","5","%">>]],
         \* Sales/Marketing/Customer Service: TERTIARY
         [category |-> <<"S","a","l","e","s","/","M","a","r","k","e","t","i","n","g","/","C","u","s","t","o","m","e","r"," ","S","e","r","v","i","c","e">>,
          data |-> [type |-> <<"T","E","R","T","I","A","R","Y">>, cons |-> <<"+","5","%"," ","t","o"," ","+","8","%">>,
                    mod |-> <<"+","8","%"," ","t","o"," ","+","1","2","%">>, agg |-> <<"+","1","2","%"," ","t","o"," ","+","1","5","%">>]],
         \* Order Processing & Back-Office: TERTIARY
         [category |-> <<"O","r","d","e","r"," ","P","r","o","c","e","s","s","i","n","g"," ","&"," ","B","a","c","k","-","O","f","f","i","c","e">>,
          data |-> [type |-> <<"T","E","R","T","I","A","R","Y">>, cons |-> <<"-","3","%"," ","t","o"," ","-","5","%">>,
                    mod |-> <<"-","5","%"," ","t","o"," ","-","8","%">>, agg |-> <<"-","8","%"," ","t","o"," ","-","1","2","%">>]],
         \* Returns/Obsolescence/Shrinkage: TERTIARY
         [category |-> <<"R","e","t","u","r","n","s","/","O","b","s","o","l","e","s","c","e","n","c","e","/","S","h","r","i","n","k","a","g","e">>,
          data |-> [type |-> <<"T","E","R","T","I","A","R","Y">>, cons |-> <<"-","3","%"," ","t","o"," ","-","5","%">>,
                    mod |-> <<"-","5","%"," ","t","o"," ","-","8","%">>, agg |-> <<"-","8","%"," ","t","o"," ","-","1","2","%">>]],
         \* IT Costs (Supply Chain): MINIMAL
         [category |-> <<"I","T"," ","C","o","s","t","s"," ","(","S","u","p","p","l","y"," ","C","h","a","i","n",")">>,
          data |-> [type |-> <<"M","I","N","I","M","A","L">>, cons |-> <<"0","%">>,
                    mod |-> <<"0","%">>, agg |-> <<"0","%">>]],
         \* Risk & Compliance: TERTIARY
         [category |-> <<"R","i","s","k"," ","&"," ","C","o","m","p","l","i","a","n","c","e">>,
          data |-> [type |-> <<"T","E","R","T","I","A","R","Y">>, cons |-> <<"-","5","%"," ","t","o"," ","-","8","%">>,
                    mod |-> <<"-","8","%"," ","t","o"," ","-","1","2","%">>, agg |-> <<"-","1","2","%"," ","t","o"," ","-","1","8","%">>]]
      >>],
     \* SKU Rationalization Analytics
     [solution |-> <<"S","K","U"," ","R","a","t","i","o","n","a","l","i","z","a","t","i","o","n"," ","A","n","a","l","y","t","i","c","s">>,
      categories |-> <<
         \* Inventory Carrying Cost: PRIMARY
         [category |-> <<"I","n","v","e","n","t","o","r","y"," ","C","a","r","r","y","i","n","g"," ","C","o","s","t">>,
          data |-> [type |-> <<"P","R","I","M","A","R","Y">>, cons |-> <<"-","1","0","%"," ","t","o"," ","-","1","5","%">>,
                    mod |-> <<"-","1","5","%"," ","t","o"," ","-","2","5","%">>, agg |-> <<"-","2","5","%"," ","t","o"," ","-","4","0","%">>]],
         \* Warehousing & Logistics: SECONDARY
         [category |-> <<"W","a","r","e","h","o","u","s","i","n","g"," ","&"," ","L","o","g","i","s","t","i","c","s">>,
          data |-> [type |-> <<"S","E","C","O","N","D","A","R","Y">>, cons |-> <<"-","8","%"," ","t","o"," ","-","1","2","%">>,
                    mod |-> <<"-","1","2","%"," ","t","o"," ","-","1","8","%">>, agg |-> <<"-","1","8","%"," ","t","o"," ","-","2","5","%">>]],
         \* Sales/Marketing/Customer Service: TERTIARY
         [category |-> <<"S","a","l","e","s","/","M","a","r","k","e","t","i","n","g","/","C","u","s","t","o","m","e","r"," ","S","e","r","v","i","c","e">>,
          data |-> [type |-> <<"T","E","R","T","I","A","R","Y">>, cons |-> <<"-","5","%"," ","t","o"," ","-","8","%">>,
                    mod |-> <<"-","3","%"," ","t","o"," ","-","5","%">>, agg |-> <<"0","%">>]],
         \* Order Processing & Back-Office: SECONDARY
         [category |-> <<"O","r","d","e","r"," ","P","r","o","c","e","s","s","i","n","g"," ","&"," ","B","a","c","k","-","O","f","f","i","c","e">>,
          data |-> [type |-> <<"S","E","C","O","N","D","A","R","Y">>, cons |-> <<"-","5","%"," ","t","o"," ","-","1","0","%">>,
                    mod |-> <<"-","1","0","%"," ","t","o"," ","-","1","5","%">>, agg |-> <<"-","1","5","%"," ","t","o"," ","-","2","0","%">>]],
         \* Returns/Obsolescence/Shrinkage: PRIMARY
         [category |-> <<"R","e","t","u","r","n","s","/","O","b","s","o","l","e","s","c","e","n","c","e","/","S","h","r","i","n","k","a","g","e">>,
          data |-> [type |-> <<"P","R","I","M","A","R","Y">>, cons |-> <<"-","1","5","%"," ","t","o"," ","-","2","0","%">>,
                    mod |-> <<"-","2","0","%"," ","t","o"," ","-","3","0","%">>, agg |-> <<"-","3","0","%"," ","t","o"," ","-","5","0","%">>]],
         \* IT Costs (Supply Chain): TERTIARY
         [category |-> <<"I","T"," ","C","o","s","t","s"," ","(","S","u","p","p","l","y"," ","C","h","a","i","n",")">>,
          data |-> [type |-> <<"T","E","R","T","I","A","R","Y">>, cons |-> <<"-","5","%"," ","t","o"," ","-","8","%">>,
                    mod |-> <<"-","8","%"," ","t","o"," ","-","1","2","%">>, agg |-> <<"-","1","2","%"," ","t","o"," ","-","1","8","%">>]],
         \* Risk & Compliance: TERTIARY
         [category |-> <<"R","i","s","k"," ","&"," ","C","o","m","p","l","i","a","n","c","e">>,
          data |-> [type |-> <<"T","E","R","T","I","A","R","Y">>, cons |-> <<"-","3","%"," ","t","o"," ","-","5","%">>,
                    mod |-> <<"-","5","%"," ","t","o"," ","-","8","%">>, agg |-> <<"-","8","%"," ","t","o"," ","-","1","2","%">>]]
      >>],
     \* Warehouse Layout & Slotting
     [solution |-> <<"W","a","r","e","h","o","u","s","e"," ","L","a","y","o","u","t"," ","&"," ","S","l","o","t","t","i","n","g">>,
      categories |-> <<
         \* Inventory Carrying Cost: TERTIARY
         [category |-> <<"I","n","v","e","n","t","o","r","y"," ","C","a","r","r","y","i","n","g"," ","C","o","s","t">>,
          data |-> [type |-> <<"T","E","R","T","I","A","R","Y">>, cons |-> <<"-","2","%"," ","t","o"," ","-","4","%">>,
                    mod |-> <<"-","4","%"," ","t","o"," ","-","8","%">>, agg |-> <<"-","8","%"," ","t","o"," ","-","1","2","%">>]],
         \* Warehousing & Logistics: PRIMARY
         [category |-> <<"W","a","r","e","h","o","u","s","i","n","g"," ","&"," ","L","o","g","i","s","t","i","c","s">>,
          data |-> [type |-> <<"P","R","I","M","A","R","Y">>, cons |-> <<"-","5","%"," ","t","o"," ","-","1","0","%">>,
                    mod |-> <<"-","1","0","%"," ","t","o"," ","-","2","0","%">>, agg |-> <<"-","2","0","%"," ","t","o"," ","-","5","0","%">>]],
         \* Sales/Marketing/Customer Service: TERTIARY
         [category |-> <<"S","a","l","e","s","/","M","a","r","k","e","t","i","n","g","/","C","u","s","t","o","m","e","r"," ","S","e","r","v","i","c","e">>,
          data |-> [type |-> <<"T","E","R","T","I","A","R","Y">>, cons |-> <<"+","1","%"," ","t","o"," ","+","2","%">>,
                    mod |-> <<"+","2","%"," ","t","o"," ","+","3","%">>, agg |-> <<"+","3","%"," ","t","o"," ","+","5","%">>]],
         \* Order Processing & Back-Office: SECONDARY
         [category |-> <<"O","r","d","e","r"," ","P","r","o","c","e","s","s","i","n","g"," ","&"," ","B","a","c","k","-","O","f","f","i","c","e">>,
          data |-> [type |-> <<"S","E","C","O","N","D","A","R","Y">>, cons |-> <<"-","3","%"," ","t","o"," ","-","5","%">>,
                    mod |-> <<"-","5","%"," ","t","o"," ","-","1","0","%">>, agg |-> <<"-","1","0","%"," ","t","o"," ","-","2","0","%">>]],
         \* Returns/Obsolescence/Shrinkage: TERTIARY
         [category |-> <<"R","e","t","u","r","n","s","/","O","b","s","o","l","e","s","c","e","n","c","e","/","S","h","r","i","n","k","a","g","e">>,
          data |-> [type |-> <<"T","E","R","T","I","A","R","Y">>, cons |-> <<"-","3","%"," ","t","o"," ","-","5","%">>,
                    mod |-> <<"-","5","%"," ","t","o"," ","-","8","%">>, agg |-> <<"-","8","%"," ","t","o"," ","-","1","2","%">>]],
         \* IT Costs (Supply Chain): MINIMAL
         [category |-> <<"I","T"," ","C","o","s","t","s"," ","(","S","u","p","p","l","y"," ","C","h","a","i","n",")">>,
          data |-> [type |-> <<"M","I","N","I","M","A","L">>, cons |-> <<"0","%">>,
                    mod |-> <<"0","%">>, agg |-> <<"0","%">>]],
         \* Risk & Compliance: TERTIARY
         [category |-> <<"R","i","s","k"," ","&"," ","C","o","m","p","l","i","a","n","c","e">>,
          data |-> [type |-> <<"T","E","R","T","I","A","R","Y">>, cons |-> <<"-","2","%"," ","t","o"," ","-","3","%">>,
                    mod |-> <<"-","3","%"," ","t","o"," ","-","5","%">>, agg |-> <<"-","5","%"," ","t","o"," ","-","8","%">>]]
      >>],
     \* Cycle Counting & Inventory Accuracy
     [solution |-> <<"C","y","c","l","e"," ","C","o","u","n","t","i","n","g"," ","&"," ","I","n","v","e","n","t","o","r","y"," ","A","c","c","u","r","a","c","y">>,
      categories |-> <<
         \* Inventory Carrying Cost: TERTIARY
         [category |-> <<"I","n","v","e","n","t","o","r","y"," ","C","a","r","r","y","i","n","g"," ","C","o","s","t">>,
          data |-> [type |-> <<"T","E","R","T","I","A","R","Y">>, cons |-> <<"-","3","%"," ","t","o"," ","-","5","%">>,
                    mod |-> <<"-","5","%"," ","t","o"," ","-","1","0","%">>, agg |-> <<"-","1","0","%"," ","t","o"," ","-","1","5","%">>]],
         \* Warehousing & Logistics: PRIMARY
         [category |-> <<"W","a","r","e","h","o","u","s","i","n","g"," ","&"," ","L","o","g","i","s","t","i","c","s">>,
          data |-> [type |-> <<"P","R","I","M","A","R","Y">>, cons |-> <<"-","2","0","%"," ","t","o"," ","-","3","0","%">>,
                    mod |-> <<"-","4","0","%"," ","t","o"," ","-","6","0","%">>, agg |-> <<"-","7","0","%"," ","t","o"," ","-","7","5","%">>]],
         \* Sales/Marketing/Customer Service: TERTIARY
         [category |-> <<"S","a","l","e","s","/","M","a","r","k","e","t","i","n","g","/","C","u","s","t","o","m","e","r"," ","S","e","r","v","i","c","e">>,
          data |-> [type |-> <<"T","E","R","T","I","A","R","Y">>, cons |-> <<"+","1","%"," ","t","o"," ","+","2","%">>,
                    mod |-> <<"+","2","%"," ","t","o"," ","+","4","%">>, agg |-> <<"+","4","%"," ","t","o"," ","+","6","%">>]],
         \* Order Processing & Back-Office: SECONDARY
         [category |-> <<"O","r","d","e","r"," ","P","r","o","c","e","s","s","i","n","g"," ","&"," ","B","a","c","k","-","O","f","f","i","c","e">>,
          data |-> [type |-> <<"S","E","C","O","N","D","A","R","Y">>, cons |-> <<"-","5","%"," ","t","o"," ","-","8","%">>,
                    mod |-> <<"-","8","%"," ","t","o"," ","-","1","2","%">>, agg |-> <<"-","1","2","%"," ","t","o"," ","-","2","0","%">>]],
         \* Returns/Obsolescence/Shrinkage: SECONDARY
         [category |-> <<"R","e","t","u","r","n","s","/","O","b","s","o","l","e","s","c","e","n","c","e","/","S","h","r","i","n","k","a","g","e">>,
          data |-> [type |-> <<"S","E","C","O","N","D","A","R","Y">>, cons |-> <<"-","5","%"," ","t","o"," ","-","8","%">>,
                    mod |-> <<"-","8","%"," ","t","o"," ","-","1","5","%">>, agg |-> <<"-","1","5","%"," ","t","o"," ","-","2","5","%">>]],
         \* IT Costs (Supply Chain): MINIMAL
         [category |-> <<"I","T"," ","C","o","s","t","s"," ","(","S","u","p","p","l","y"," ","C","h","a","i","n",")">>,
          data |-> [type |-> <<"M","I","N","I","M","A","L">>, cons |-> <<"0","%">>,
                    mod |-> <<"0","%">>, agg |-> <<"0","%">>]],
         \* Risk & Compliance: TERTIARY
         [category |-> <<"R","i","s","k"," ","&"," ","C","o","m","p","l","i","a","n","c","e">>,
          data |-> [type |-> <<"T","E","R","T","I","A","R","Y">>, cons |-> <<"-","3","%"," ","t","o"," ","-","5","%">>,
                    mod |-> <<"-","5","%"," ","t","o"," ","-","1","0","%">>, agg |-> <<"-","1","0","%"," ","t","o"," ","-","1","5","%">>]]
      >>],
     \* Order Pattern Optimization
     [solution |-> <<"O","r","d","e","r"," ","P","a","t","t","e","r","n"," ","O","p","t","i","m","i","z","a","t","i","o","n">>,
      categories |-> <<
         \* Inventory Carrying Cost: SECONDARY
         [category |-> <<"I","n","v","e","n","t","o","r","y"," ","C","a","r","r","y","i","n","g"," ","C","o","s","t">>,
          data |-> [type |-> <<"S","E","C","O","N","D","A","R","Y">>, cons |-> <<"-","5","%"," ","t","o"," ","-","1","0","%">>,
                    mod |-> <<"-","1","0","%"," ","t","o"," ","-","1","5","%">>, agg |-> <<"-","1","5","%"," ","t","o"," ","-","2","0","%">>]],
         \* Warehousing & Logistics: SECONDARY
         [category |-> <<"W","a","r","e","h","o","u","s","i","n","g"," ","&"," ","L","o","g","i","s","t","i","c","s">>,
          data |-> [type |-> <<"S","E","C","O","N","D","A","R","Y">>, cons |-> <<"-","1","0","%"," ","t","o"," ","-","1","5","%">>,
                    mod |-> <<"-","1","5","%"," ","t","o"," ","-","2","5","%">>, agg |-> <<"-","2","5","%"," ","t","o"," ","-","3","5","%">>]],
         \* Sales/Marketing/Customer Service: SECONDARY
         [category |-> <<"S","a","l","e","s","/","M","a","r","k","e","t","i","n","g","/","C","u","s","t","o","m","e","r"," ","S","e","r","v","i","c","e">>,
          data |-> [type |-> <<"S","E","C","O","N","D","A","R","Y">>, cons |-> <<"+","1","0","%"," ","t","o"," ","+","1","5","%">>,
                    mod |-> <<"+","1","5","%"," ","t","o"," ","+","2","5","%">>, agg |-> <<"+","2","5","%"," ","t","o"," ","+","3","5","%">>]],
         \* Order Processing & Back-Office: PRIMARY
         [category |-> <<"O","r","d","e","r"," ","P","r","o","c","e","s","s","i","n","g"," ","&"," ","B","a","c","k","-","O","f","f","i","c","e">>,
          data |-> [type |-> <<"P","R","I","M","A","R","Y">>, cons |-> <<"-","1","5","%"," ","t","o"," ","-","2","5","%">>,
                    mod |-> <<"-","2","5","%"," ","t","o"," ","-","4","0","%">>, agg |-> <<"-","4","0","%"," ","t","o"," ","-","6","0","%">>]],
         \* Returns/Obsolescence/Shrinkage: TERTIARY
         [category |-> <<"R","e","t","u","r","n","s","/","O","b","s","o","l","e","s","c","e","n","c","e","/","S","h","r","i","n","k","a","g","e">>,
          data |-> [type |-> <<"T","E","R","T","I","A","R","Y">>, cons |-> <<"-","5","%"," ","t","o"," ","-","8","%">>,
                    mod |-> <<"-","8","%"," ","t","o"," ","-","1","2","%">>, agg |-> <<"-","1","2","%"," ","t","o"," ","-","1","8","%">>]],
         \* IT Costs (Supply Chain): MINIMAL
         [category |-> <<"I","T"," ","C","o","s","t","s"," ","(","S","u","p","p","l","y"," ","C","h","a","i","n",")">>,
          data |-> [type |-> <<"M","I","N","I","M","A","L">>, cons |-> <<"0","%">>,
                    mod |-> <<"0","%">>, agg |-> <<"0","%">>]],
         \* Risk & Compliance: TERTIARY
         [category |-> <<"R","i","s","k"," ","&"," ","C","o","m","p","l","i","a","n","c","e">>,
          data |-> [type |-> <<"T","E","R","T","I","A","R","Y">>, cons |-> <<"-","2","%"," ","t","o"," ","-","4","%">>,
                    mod |-> <<"-","4","%"," ","t","o"," ","-","6","%">>, agg |-> <<"-","6","%"," ","t","o"," ","-","1","0","%">>]]
      >>],
     \* Inventory Visibility & Real-Time Data
     [solution |-> <<"I","n","v","e","n","t","o","r","y"," ","V","i","s","i","b","i","l","i","t","y"," ","&"," ","R","e","a","l","-","T","i","m","e"," ","D","a","t","a">>,
      categories |-> <<
         \* Inventory Carrying Cost: SECONDARY
         [category |-> <<"I","n","v","e","n","t","o","r","y"," ","C","a","r","r","y","i","n","g"," ","C","o","s","t">>,
          data |-> [type |-> <<"S","E","C","O","N","D","A","R","Y">>, cons |-> <<"-","8","%"," ","t","o"," ","-","1","2","%">>,
                    mod |-> <<"-","1","2","%"," ","t","o"," ","-","1","8","%">>, agg |-> <<"-","1","8","%"," ","t","o"," ","-","2","5","%">>]],
         \* Warehousing & Logistics: SECONDARY
         [category |-> <<"W","a","r","e","h","o","u","s","i","n","g"," ","&"," ","L","o","g","i","s","t","i","c","s">>,
          data |-> [type |-> <<"S","E","C","O","N","D","A","R","Y">>, cons |-> <<"-","1","0","%"," ","t","o"," ","-","1","5","%">>,
                    mod |-> <<"-","1","5","%"," ","t","o"," ","-","2","0","%">>, agg |-> <<"-","2","0","%"," ","t","o"," ","-","2","5","%">>]],
         \* Sales/Marketing/Customer Service: TERTIARY
         [category |-> <<"S","a","l","e","s","/","M","a","r","k","e","t","i","n","g","/","C","u","s","t","o","m","e","r"," ","S","e","r","v","i","c","e">>,
          data |-> [type |-> <<"T","E","R","T","I","A","R","Y">>, cons |-> <<"+","5","%"," ","t","o"," ","+","8","%">>,
                    mod |-> <<"+","8","%"," ","t","o"," ","+","1","2","%">>, agg |-> <<"+","1","2","%"," ","t","o"," ","+","1","5","%">>]],
         \* Order Processing & Back-Office: PRIMARY
         [category |-> <<"O","r","d","e","r"," ","P","r","o","c","e","s","s","i","n","g"," ","&"," ","B","a","c","k","-","O","f","f","i","c","e">>,
          data |-> [type |-> <<"P","R","I","M","A","R","Y">>, cons |-> <<"-","1","5","%"," ","t","o"," ","-","2","0","%">>,
                    mod |-> <<"-","2","0","%"," ","t","o"," ","-","3","0","%">>, agg |-> <<"-","3","0","%"," ","t","o"," ","-","4","0","%">>]],
         \* Returns/Obsolescence/Shrinkage: SECONDARY
         [category |-> <<"R","e","t","u","r","n","s","/","O","b","s","o","l","e","s","c","e","n","c","e","/","S","h","r","i","n","k","a","g","e">>,
          data |-> [type |-> <<"S","E","C","O","N","D","A","R","Y">>, cons |-> <<"-","5","%"," ","t","o"," ","-","8","%">>,
                    mod |-> <<"-","8","%"," ","t","o"," ","-","1","5","%">>, agg |-> <<"-","1","5","%"," ","t","o"," ","-","2","5","%">>]],
         \* IT Costs (Supply Chain): MINIMAL
         [category |-> <<"I","T"," ","C","o","s","t","s"," ","(","S","u","p","p","l","y"," ","C","h","a","i","n",")">>,
          data |-> [type |-> <<"M","I","N","I","M","A","L">>, cons |-> <<"0","%">>,
                    mod |-> <<"0","%">>, agg |-> <<"0","%">>]],
         \* Risk & Compliance: TERTIARY
         [category |-> <<"R","i","s","k"," ","&"," ","C","o","m","p","l","i","a","n","c","e">>,
          data |-> [type |-> <<"T","E","R","T","I","A","R","Y">>, cons |-> <<"-","3","%"," ","t","o"," ","-","5","%">>,
                    mod |-> <<"-","5","%"," ","t","o"," ","-","1","0","%">>, agg |-> <<"-","1","0","%"," ","t","o"," ","-","1","5","%">>]]
      >>],
     \* Obsolescence & Aging Control
     [solution |-> <<"O","b","s","o","l","e","s","c","e","n","c","e"," ","&"," ","A","g","i","n","g"," ","C","o","n","t","r","o","l">>,
      categories |-> <<
         \* Inventory Carrying Cost: SECONDARY
         [category |-> <<"I","n","v","e","n","t","o","r","y"," ","C","a","r","r","y","i","n","g"," ","C","o","s","t">>,
          data |-> [type |-> <<"S","E","C","O","N","D","A","R","Y">>, cons |-> <<"-","5","%"," ","t","o"," ","-","8","%">>,
                    mod |-> <<"-","8","%"," ","t","o"," ","-","1","2","%">>, agg |-> <<"-","1","2","%"," ","t","o"," ","-","2","0","%">>]],
         \* Warehousing & Logistics: TERTIARY
         [category |-> <<"W","a","r","e","h","o","u","s","i","n","g"," ","&"," ","L","o","g","i","s","t","i","c","s">>,
          data |-> [type |-> <<"T","E","R","T","I","A","R","Y">>, cons |-> <<"-","3","%"," ","t","o"," ","-","5","%">>,
                    mod |-> <<"-","5","%"," ","t","o"," ","-","8","%">>, agg |-> <<"-","8","%"," ","t","o"," ","-","1","2","%">>]],
         \* Sales/Marketing/Customer Service: TERTIARY
         [category |-> <<"S","a","l","e","s","/","M","a","r","k","e","t","i","n","g","/","C","u","s","t","o","m","e","r"," ","S","e","r","v","i","c","e">>,
          data |-> [type |-> <<"T","E","R","T","I","A","R","Y">>, cons |-> <<"0","%">>,
                    mod |-> <<"0","%"," ","t","o"," ","+","2","%">>, agg |-> <<"+","2","%"," ","t","o"," ","+","5","%">>]],
         \* Order Processing & Back-Office: TERTIARY
         [category |-> <<"O","r","d","e","r"," ","P","r","o","c","e","s","s","i","n","g"," ","&"," ","B","a","c","k","-","O","f","f","i","c","e">>,
          data |-> [type |-> <<"T","E","R","T","I","A","R","Y">>, cons |-> <<"-","2","%"," ","t","o"," ","-","3","%">>,
                    mod |-> <<"-","3","%"," ","t","o"," ","-","5","%">>, agg |-> <<"-","5","%"," ","t","o"," ","-","8","%">>]],
         \* Returns/Obsolescence/Shrinkage: PRIMARY
         [category |-> <<"R","e","t","u","r","n","s","/","O","b","s","o","l","e","s","c","e","n","c","e","/","S","h","r","i","n","k","a","g","e">>,
          data |-> [type |-> <<"P","R","I","M","A","R","Y">>, cons |-> <<"-","2","0","%"," ","t","o"," ","-","3","0","%">>,
                    mod |-> <<"-","3","0","%"," ","t","o"," ","-","5","0","%">>, agg |-> <<"-","5","0","%"," ","t","o"," ","-","7","0","%">>]],
         \* IT Costs (Supply Chain): MINIMAL
         [category |-> <<"I","T"," ","C","o","s","t","s"," ","(","S","u","p","p","l","y"," ","C","h","a","i","n",")">>,
          data |-> [type |-> <<"M","I","N","I","M","A","L">>, cons |-> <<"0","%">>,
                    mod |-> <<"0","%">>, agg |-> <<"0","%">>]],
         \* Risk & Compliance: TERTIARY
         [category |-> <<"R","i","s","k"," ","&"," ","C","o","m","p","l","i","a","n","c","e">>,
          data |-> [type |-> <<"T","E","R","T","I","A","R","Y">>, cons |-> <<"-","2","%"," ","t","o"," ","-","4","%">>,
                    mod |-> <<"-","4","%"," ","t","o"," ","-","8","%">>, agg |-> <<"-","8","%"," ","t","o"," ","-","1","2","%">>]]
      >>]
  >>

\* PROMPTS (lines 331-1046): block type -> template.  A template is kept as what
\* str.format reads of it: whether it is the empty string, and its replacement fields
\* in order of first appearance, a named field {x} as [name |-> "x"] and a positional
\* field ({} or {0}) as [index |-> 0].  No shipped template has a positional field.
PROMPTS ==
  <<
     \* executive_summary (line 337)
     [block_type |-> <<"e","x","e","c","u","t","i","v","e","_","s","u","m","m","a","r","y">>,
      template |-> [empty |-> FALSE,
                   fields |-> <<[name |-> "risk_tolerance"], [name |-> "variation"]>>]],
     \* industry_narrative (line 384)
     [block_type |-> <<"i","n","d","u","s","t","r","y","_","n","a","r","r","a","t","i","v","e">>,
      template |-> [empty |-> FALSE,
                   fields |-> <<[name |-> "industry"], [name |-> "variation"], [name |-> "industry_factors"]>>]],
     \* solution_description (line 431)
     [block_type |-> <<"s","o","l","u","t","i","o","n","_","d","e","s","c","r","i","p","t","i","o","n">>,
      template |-> [empty |-> FALSE,
                   fields |-> <<[name |-> "solution_name"], [name |-> "roi_timeline"], [name |-> "primary_impacts"], [name |-> "sources"], [name |-> "impact_matrix"]>>]],
     \* category_anchor (line 496)
     [block_type |-> <<"c","a","t","e","g","o","r","y","_","a","n","c","h","o","r">>,
      template |-> [empty |-> FALSE,
                   fields |-> <<[name |-> "category"], [name |-> "variation"], [name |-> "benchmark_range"], [name |-> "cost_components"]>>]],
     \* impact_primary (line 552)
     [block_type |-> <<"i","m","p","a","c","t","_","p","r","i","m","a","r","y">>,
      template |-> [empty |-> FALSE,
                   fields |-> <<[name |-> "solution"], [name |-> "category"], [name |-> "conservative_range"], [name |-> "moderate_range"], [name |-> "aggressive_range"], [name |-> "sources"]>>]],
     \* impact_secondary (line 579)
     [block_type |-> <<"i","m","p","a","c","t","_","s","e","c","o","n","d","a","r","y">>,
      template |-> [empty |-> FALSE,
                   fields |-> <<[name |-> "solution"], [name |-> "category"], [name |-> "conservative_range"], [name |-> "moderate_range"], [name |-> "sources"]>>]],
     \* impact_tertiary (line 604)
     [block_type |-> <<"i","m","p","a","c","t","_","t","e","r","t","i","a","r","y">>,
      template |-> [empty |-> FALSE,
                   fields |-> <<[name |-> "solution"], [name |-> "category"], [name |-> "typical_range"]>>]],
     \* synergy (line 626)
     [block_type |-> <<"s","y","n","e","r","g","y">>,
      template |-> [empty |-> FALSE,
                   fields |-> <<[name |-> "solution_a"], [name |-> "solution_b"], [name |-> "interaction_type"], [name |-> "affected_categories"]>>]],
     \* methodology (line 650)
     [block_type |-> <<"m","e","t","h","o","d","o","l","o","g","y">>,
      template |-> [empty |-> FALSE,
                   fields |-> <<[name |-> "risk_tolerance"], [name |-> "discount"], [name |-> "cap"]>>]],
     \* implementation_roadmap (line 719)
     [block_type |-> <<"i","m","p","l","e","m","e","n","t","a","t","i","o","n","_","r","o","a","d","m","a","p">>,
      template |-> [empty |-> FALSE,
                   fields |-> <<[name |-> "complexity"]>>]],
     \* why_now (line 795)
     [block_type |-> <<"w","h","y","_","n","o","w">>,
      template |-> [empty |-> FALSE,
                   fields |-> <<>>]],
     \* diy_vs_partner (line 826)
     [block_type |-> <<"d","i","y","_","v","s","_","p","a","r","t","n","e","r">>,
      template |-> [empty |-> FALSE,
                   fields |-> <<>>]],
     \* readiness_assessment (line 860)
     [block_type |-> <<"r","e","a","d","i","n","e","s","s","_","a","s","s","e","s","s","m","e","n","t">>,
      template |-> [empty |-> FALSE,
                   fields |-> <<>>]],
     \* report_limitations (line 927)
     [block_type |-> <<"r","e","p","o","r","t","_","l","i","m","i","t","a","t","i","o","n","s">>,
      template |-> [empty |-> FALSE,
                   fields |-> <<>>]],
     \* risk_factors (line 949)
     [block_type |-> <<"r","i","s","k","_","f","a","c","t","o","r","s">>,
      template |-> [empty |-> FALSE,
                   fields |-> <<>>]],
     \* next_steps (line 978)
     [block_type |-> <<"n","e","x","t","_","s","t","e","p","s">>,
      template |-> [empty |-> FALSE,
                   fields |-> <<>>]],
     \* partner_acknowledgment (line 1003)
     [block_type |-> <<"p","a","r","t","n","e","r","_","a","c","k","n","o","w","l","e","d","g","m","e","n","t">>,
      template |-> [empty |-> FALSE,
                   fields |-> <<>>]],
     \* sales_enablement (line 1027)
     [block_type |-> <<"s","a","l","e","s","_","e","n","a","b","l","e","m","e","n","t">>,
      template |-> [empty |-> FALSE,
                   fields |-> <<[name |-> "solution_combo"], [name |-> "industry"], [name |-> "company_size"]>>]]
  >>

\* single_blocks (lines 1500-1508): (block type, params, output key).
single_blocks ==
  <<
     <<<<"w","h","y","_","n","o","w">>, EmptyParams, <<"w","h","y","_","n","o","w">>>>,   \* why_now
     <<<<"d","i","y","_","v","s","_","p","a","r","t","n","e","r">>, EmptyParams, <<"d","i","y","_","v","s","_","p","a","r","t","n","e","r">>>>,   \* diy_vs_partner
     <<<<"r","e","a","d","i","n","e","s","s","_","a","s","s","e","s","s","m","e","n","t">>, EmptyParams, <<"r","e","a","d","i","n","e","s","s","_","a","s","s","e","s","s","m","e","n","t">>>>,   \* readiness_assessment
     <<<<"r","e","p","o","r","t","_","l","i","m","i","t","a","t","i","o","n","s">>, EmptyParams, <<"r","e","p","o","r","t","_","l","i","m","i","t","a","t","i","o","n","s">>>>,   \* report_limitations
     <<<<"r","i","s","k","_","f","a","c","t","o","r","s">>, EmptyParams, <<"r","i","s","k","_","f","a","c","t","o","r","s">>>>,   \* risk_factors
     <<<<"n","e","x","t","_","s","t","e","p","s">>, EmptyParams, <<"n","e","x","t","_","s","t","e","p","s">>>>,   \* next_steps
     <<<<"p","a","r","t","n","e","r","_","a","c","k","n","o","w","l","e","d","g","m","e","n","t">>, EmptyParams, <<"p","a","r","t","n","e","r","_","a","c","k","n","o","w","l","e","d","g","m","e","n","t">>>>   \* partner_acknowledgment
  >>

\* common_combos (lines 1518-1529): (solution combo, industry, company size).
common_combos ==
  <<
     \* Demand Forecasting AI + Inventory Planning
     <<<<"D","e","m","a","n","d"," ","F","o","r","e","c","a","s","t","i","n","g"," ","A","I"," ","+"," ","I","n","v","e","n","t","o","r","y"," ","P","l","a","n","n","i","n","g">>,
       <<"I","n","d","u","s","t","r","i","a","l"," ","D","i","s","t","r","i","b","u","t","i","o","n">>, <<"M","i","d","-","M","a","r","k","e","t">>>>,
     \* SKU Rationalization Analytics
     <<<<"S","K","U"," ","R","a","t","i","o","n","a","l","i","z","a","t","i","o","n"," ","A","n","a","l","y","t","i","c","s">>,
       <<"R","e","t","a","i","l","/","E","-","c","o","m","m","e","r","c","e">>, <<"S","m","a","l","l">>>>,
     \* Warehouse Layout & Slotting + Cycle Counting
     <<<<"W","a","r","e","h","o","u","s","e"," ","L","a","y","o","u","t"," ","&"," ","S","l","o","t","t","i","n","g"," ","+"," ","C","y","c","l","e"," ","C","o","u","n","t","i","n","g">>,
       <<"I","n","d","u","s","t","r","i","a","l"," ","D","i","s","t","r","i","b","u","t","i","o","n">>, <<"M","i","d","-","M","a","r","k","e","t">>>>,
     \* Demand Forecasting AI + Obsolescence & Aging Control
     <<<<"D","e","m","a","n","d"," ","F","o","r","e","c","a","s","t","i","n","g"," ","A","I"," ","+"," ","O","b","s","o","l","e","s","c","e","n","c","e"," ","&"," ","A","g","i","n","g"," ","C","o","n","t","r","o","l">>,
       <<"F","o","o","d"," ","&"," ","B","e","v","e","r","a","g","e">>, <<"M","i","d","-","M","a","r","k","e","t">>>>,
     \* Full Suite (all 9)
     <<<<"F","u","l","l"," ","S","u","i","t","e"," ","(","a","l","l"," ","9",")">>,
       <<"E","n","t","e","r","p","r","i","s","e">>, <<"E","n","t","e","r","p","r","i","s","e">>>>,
     \* Inventory Visibility + Order Pattern Optimization
     <<<<"I","n","v","e","n","t","o","r","y"," ","V","i","s","i","b","i","l","i","t","y"," ","+"," ","O","r","d","e","r"," ","P","a","t","t","e","r","n"," ","O","p","t","i","m","i","z","a","t","i","o","n">>,
       <<"R","e","t","a","i","l","/","E","-","c","o","m","m","e","r","c","e">>, <<"M","i","d","-","M","a","r","k","e","t">>>>,
     \* SKU Rationalization + Demand Forecasting
     <<<<"S","K","U"," ","R","a","t","i","o","n","a","l","i","z","a","t","i","o","n"," ","+"," ","D","e","m","a","n","d"," ","F","o","r","e","c","a","s","t","i","n","g">>,
       <<"C","P","G">>, <<"E","n","t","e","r","p","r","i","s","e">>>>,
     \* Supplier Lead Time + Inventory Planning
     <<<<"S","u","p","p","l","i","e","r"," ","L","e","a","d"," ","T","i","m","e"," ","+"," ","I","n","v","e","n","t","o","r","y"," ","P","l","a","n","n","i","n","g">>,
       <<"I","n","d","u","s","t","r","i","a","l"," ","D","i","s","t","r","i","b","u","t","i","o","n">>, <<"E","n","t","e","r","p","r","i","s","e">>>>,
     \* Cycle Counting + Inventory Visibility
     <<<<"C","y","c","l","e"," ","C","o","u","n","t","i","n","g"," ","+"," ","I","n","v","e","n","t","o","r","y"," ","V","i","s","i","b","i","l","i","t","y">>,
       <<"P","h","a","r","m","a","c","e","u","t","i","c","a","l">>, <<"M","i","d","-","M","a","r","k","e","t">>>>,
     \* Warehouse Slotting only
     <<<<"W","a","r","e","h","o","u","s","e"," ","S","l","o","t","t","i","n","g"," ","o","n","l","y">>,
       <<"I","n","d","u","s","t","r","i","a","l"," ","D","i","s","t","r","i","b","u","t","i","o","n">>, <<"S","m","a","l","l">>>>
  >>
\* The tables as shipped, in one record: what the module namespace holds at import.
ShippedTables ==
  [INDUSTRIES |-> INDUSTRIES, SOLUTIONS |-> SOLUTIONS, CATEGORIES |-> CATEGORIES,
   SYNERGY_PAIRS |-> SYNERGY_PAIRS, RISK_TOLERANCES |-> RISK_TOLERANCES,
   COMPLEXITY_LEVELS |-> COMPLEXITY_LEVELS, IMPACT_MATRIX |-> IMPACT_MATRIX,
   PROMPTS |-> PROMPTS, single_blocks |-> single_blocks,
   common_combos |-> common_combos]

(***************************************************************************)
(* HELPER FUNCTIONS (lines 1366-1541)                                      *)
(***************************************************************************)

\* The (solution, category, data) cells of the matrix in iteration order.
MatrixCells(T) ==
  Flatten([i \in 1..Len(T.IMPACT_MATRIX) |->
            [j \in 1..Len(T.IMPACT_MATRIX[i].categories) |->
               [solution |-> T.IMPACT_MATRIX[i].solution,
                category |-> T.IMPACT_MATRIX[i].categories[j].category,
                data |-> T.IMPACT_MATRIX[i].categories[j].data]]])

\* Mutant of IsGenerated: the filter compares with the wrong spelling of the sentinel.
IsGeneratedWrongCase(cell) == cell.data.type # <<"m","i","n","i","m","a","l">>

\* if data["type"] != "MINIMAL"
IsGenerated(cell) == cell.data.type # <<"M","I","N","I","M","A","L">>

get_impact_blocks_to_generate(T) ==
  LET kept == SelectSeq(MatrixCells(T), IsGenerated)
  IN [k \in 1..Len(kept) |->
        [solution |-> kept[k].solution,
         category |-> kept[k].category,
         impact_type |-> kept[k].data.type,
         conservative_range |-> kept[k].data.cons,
         moderate_range |-> kept[k].data.mod,
         aggressive_range |-> kept[k].data.agg]]

\* range(1, 5), range(1, 4), range(1, 3): the last variation of each family.
ExecutiveSummaryVariations == 4

IndustryVariations == 3

CategoryVariations == 2

\* [:15] and [:30]
SynergyKeyLen == 15

SalesKeyLen == 30

Space == " "

Underscore == <<"_">>

\* f"executive_summary_{risk['name'].lower()}_v{var}"
ExecutiveSummaryKey(risk, var) ==
  <<"e","x","e","c","u","t","i","v","e","_","s","u","m","m","a","r","y","_">>
    \o lower(risk.name) \o <<"_","v">> \o str(var)

ExecutiveSummaryTasks(T) ==
  [k \in 1..(Len(T.RISK_TOLERANCES) * ExecutiveSummaryVariations) |->
     LET risk == T.RISK_TOLERANCES[((k - 1) \div ExecutiveSummaryVariations) + 1]
         var == ((k - 1) % ExecutiveSummaryVariations) + 1
     IN [block_type |-> <<"e","x","e","c","u","t","i","v","e","_","s","u","m","m","a","r","y">>,
         params |-> [risk_tolerance |-> risk.name, variation |-> var],
         output_key |-> ExecutiveSummaryKey(risk, var)]]

\* f"industry_{industry['name'].lower().replace('/', '_').replace(' ', '_')}_v{var}"
IndustryKey(industry, var) ==
  <<"i","n","d","u","s","t","r","y","_">>
    \o replace(replace(lower(industry.name), "/", Underscore), Space, Underscore)
    \o <<"_","v">> \o str(var)

IndustryNarrativeTasks(T) ==
  [k \in 1..(Len(T.INDUSTRIES) * IndustryVariations) |->
     LET industry == T.INDUSTRIES[((k - 1) \div IndustryVariations) + 1]
         var == ((k - 1) % IndustryVariations) + 1
     IN [block_type |-> <<"i","n","d","u","s","t","r","y","_","n","a","r","r","a","t","i","v","e">>,
         params |-> [industry |-> industry.name, variation |-> var,
                     industry_factors |-> industry.factors],
         output_key |-> IndustryKey(industry, var)]]

\* IMPACT_MATRIX.get(solution["name"], {}): the solution's row, or no cells.
ImpactData(T, name) ==
  IF \E i \in 1..Len(T.IMPACT_MATRIX) : T.IMPACT_MATRIX[i].solution = name
    THEN T.IMPACT_MATRIX[CHOOSE i \in 1..Len(T.IMPACT_MATRIX) :
                           T.IMPACT_MATRIX[i].solution = name].categories
    ELSE <<>>

\* "\n".join(f"- {cat}: {data['type']} impact, {data['mod']} (moderate)" ...)
ImpactMatrixStr(T, name) ==
  LET impact_data == ImpactData(T, name)
  IN join(<<"\n">>,
          [j \in 1..Len(impact_data) |->
             <<"-"," ">> \o impact_data[j].category \o <<":"," ">>
               \o impact_data[j].data.type
               \o <<" ","i","m","p","a","c","t",","," ">>
               \o impact_data[j].data.mod
               \o <<" ","(","m","o","d","e","r","a","t","e",")">>])

\* f"solution_{solution['name'].lower().replace(' ', '_').replace('&', 'and')}"
SolutionKey(solution) ==
  <<"s","o","l","u","t","i","o","n","_">>
    \o replace(replace(lower(solution.name), Space, Underscore), "&", <<"a","n","d">>)

SolutionDescriptionTasks(T) ==
  [k \in 1..Len(T.SOLUTIONS) |->
     LET solution == T.SOLUTIONS[k]
     IN [block_type |-> <<"s","o","l","u","t","i","o","n","_","d","e","s","c","r","i","p","t","i","o","n">>,
         params |-> [solution_name |-> solution.name,
                     roi_timeline |-> solution.roi_timeline,
                     primary_impacts |-> solution.primary_impacts,
                     sources |-> solution.sources,
                     impact_matrix |-> ImpactMatrixStr(T, solution.name)],
         output_key |-> SolutionKey(solution)]]

\* f"category_{category['name'].lower().replace('/', '_').replace(' ', '_')}_v{var}"
CategoryKey(category, var) ==
  <<"c","a","t","e","g","o","r","y","_">>
    \o replace(replace(lower(category.name), "/", Underscore), Space, Underscore)
    \o <<"_","v">> \o str(var)

\* Mutant of CategoryAnchorTasks: range(1, 2) instead of range(1, 3).
CategoryAnchorTasksOneEach(T) ==
  [k \in 1..Len(T.CATEGORIES) |->
     LET category == T.CATEGORIES[k]
     IN [block_type |-> <<"c","a","t","e","g","o","r","y","_","a","n","c","h","o","r">>,
         params |-> [category |-> category.name, variation |-> 1,
                     benchmark_range |-> category.benchmark_range,
                     cost_components |-> category.cost_components],
         output_key |-> CategoryKey(category, 1)]]

CategoryAnchorTasks(T) ==
  [k \in 1..(Len(T.CATEGORIES) * CategoryVariations) |->
     LET category == T.CATEGORIES[((k - 1) \div CategoryVariations) + 1]
         var == ((k - 1) % CategoryVariations) + 1
     IN [block_type |-> <<"c","a","t","e","g","o","r","y","_","a","n","c","h","o","r">>,
         params |-> [category |-> category.name, variation |-> var,
                     benchmark_range |-> category.benchmark_range,
                     cost_components |-> category.cost_components],
         output_key |-> CategoryKey(category, var)]]

\* Mutant of ImpactPromptType: the impact type is used as written in the matrix.
ImpactPromptTypeAsWritten(block) ==
  <<"i","m","p","a","c","t","_">> \o block.impact_type

\* prompt_type = f"impact_{block['impact_type'].lower()}"
ImpactPromptType(block) ==
  <<"i","m","p","a","c","t","_">> \o lower(block.impact_type)

\* next((s for s in SOLUTIONS if s["name"] == block["solution"]), {}).get("sources", "")
SolutionSources(T, name) ==
  IF \E i \in 1..Len(T.SOLUTIONS) : T.SOLUTIONS[i].name = name
    THEN T.SOLUTIONS[CHOOSE i \in 1..Len(T.SOLUTIONS) :
                       /\ T.SOLUTIONS[i].name = name
                       /\ \A h \in 1..(i - 1) : T.SOLUTIONS[h].name # name].sources
    ELSE ""

\* f"impact_{solution.lower().replace(' ', '_')}_{category.lower().replace('/', '_').replace(' ', '_')}"
ImpactKey(block) ==
  <<"i","m","p","a","c","t","_">>
    \o replace(lower(block.solution), Space, Underscore)
    \o Underscore
    \o replace(replace(lower(block.category), "/", Underscore), Space, Underscore)

ImpactTasks(T) ==
  LET blocks == get_impact_blocks_to_generate(T)
  IN [k \in 1..Len(blocks) |->
        LET block == blocks[k]
        IN [block_type |-> ImpactPromptType(block),
            params |-> [solution |-> block.solution,
                        category |-> block.category,
                        conservative_range |-> block.conservative_range,
                        moderate_range |-> block.moderate_range,
                        aggressive_range |-> block.aggressive_range,
                        typical_range |-> block.moderate_range,
                        sources |-> SolutionSources(T, block.solution)],
            output_key |-> ImpactKey(block)]]

\* f"synergy_{sol_a.lower().replace(' ', '_')[:15]}_{sol_b.lower().replace(' ', '_')[:15]}"
SynergyKey(sol_a, sol_b) ==
  <<"s","y","n","e","r","g","y","_">>
    \o slice_to(replace(lower(sol_a), Space, Underscore), SynergyKeyLen)
    \o Underscore
    \o slice_to(replace(lower(sol_b), Space, Underscore), SynergyKeyLen)

SynergyTasks(T) ==
  [k \in 1..Len(T.SYNERGY_PAIRS) |->
     LET pair == T.SYNERGY_PAIRS[k]
     IN [block_type |-> <<"s","y","n","e","r","g","y">>,
         params |-> [solution_a |-> pair[1], solution_b |-> pair[2],
                     interaction_type |-> pair[3],
                     affected_categories |-> pair[4]],
         output_key |-> SynergyKey(pair[1], pair[2])]]

\* f"methodology_{risk['name'].lower()}"
MethodologyKey(risk) ==
  <<"m","e","t","h","o","d","o","l","o","g","y","_">> \o lower(risk.name)

\* Mutant of MethodologyTasks: the params leave out the cap.
MethodologyTasksWithoutCap(T) ==
  [k \in 1..Len(T.RISK_TOLERANCES) |->
     LET risk == T.RISK_TOLERANCES[k]
     IN [block_type |-> <<"m","e","t","h","o","d","o","l","o","g","y">>,
         params |-> [risk_tolerance |-> risk.name, discount |-> risk.discount],
         output_key |-> MethodologyKey(risk)]]

MethodologyTasks(T) ==
  [k \in 1..Len(T.RISK_TOLERANCES) |->
     LET risk == T.RISK_TOLERANCES[k]
     IN [block_type |-> <<"m","e","t","h","o","d","o","l","o","g","y">>,
         params |-> [risk_tolerance |-> risk.name, discount |-> risk.discount,
                     cap |-> risk.cap],
         output_key |-> MethodologyKey(risk)]]

\* f"roadmap_{complexity.lower()}"
RoadmapKey(complexity) ==
  <<"r","o","a","d","m","a","p","_">> \o lower(complexity)

RoadmapTasks(T) ==
  [k \in 1..Len(T.COMPLEXITY_LEVELS) |->
     [block_type |-> <<"i","m","p","l","e","m","e","n","t","a","t","i","o","n","_","r","o","a","d","m","a","p">>,
      params |-> [complexity |-> T.COMPLEXITY_LEVELS[k]],
      output_key |-> RoadmapKey(T.COMPLEXITY_LEVELS[k])]]

SingleBlockTasks(T) ==
  [k \in 1..Len(T.single_blocks) |->
     [block_type |-> T.single_blocks[k][1],
      params |-> T.single_blocks[k][2],
      output_key |-> T.single_blocks[k][3]]]

\* Mutant of SalesEnablementKey: the combination is cut after 17 characters.
SalesEnablementKeyCutShort(combo) ==
  <<"s","a","l","e","s","_","e","n","a","b","l","e","m","e","n","t","_">>
    \o slice_to(replace(replace(lower(combo), Space, Underscore), "+", Underscore), 17)

\* f"sales_enablement_{combo.lower().replace(' ', '_').replace('+', '_')[:30]}"
SalesEnablementKey(combo) ==
  <<"s","a","l","e","s","_","e","n","a","b","l","e","m","e","n","t","_">>
    \o slice_to(replace(replace(lower(combo), Space, Underscore), "+", Underscore),
                SalesKeyLen)

SalesEnablementTasks(T) ==
  [k \in 1..Len(T.common_combos) |->
     LET combo == T.common_combos[k]
     IN [block_type |-> <<"s","a","l","e","s","_","e","n","a","b","l","e","m","e","n","t">>,
         params |-> [solution_combo |-> combo[1], industry |-> combo[2],
                     company_size |-> combo[3]],
         output_key |-> SalesEnablementKey(combo[1])]]

\* Mutant of build_all_generation_tasks: the list is not reset, the tasks are
\* appended to those of the previous call.
BuildAppendingToPrevious(T) ==
  main_tasks \o ExecutiveSummaryTasks(T) \o IndustryNarrativeTasks(T)
    \o SolutionDescriptionTasks(T) \o CategoryAnchorTasks(T) \o ImpactTasks(T)
    \o SynergyTasks(T) \o MethodologyTasks(T) \o RoadmapTasks(T)
    \o SingleBlockTasks(T) \o SalesEnablementTasks(T)

\* build_all_generation_tasks(): tasks = [] and ten loops appending in this order.
build_all_generation_tasks(T) ==
  ExecutiveSummaryTasks(T) \o IndustryNarrativeTasks(T)
    \o SolutionDescriptionTasks(T) \o CategoryAnchorTasks(T) \o ImpactTasks(T)
    \o SynergyTasks(T) \o MethodologyTasks(T) \o RoadmapTasks(T)
    \o SingleBlockTasks(T) \o SalesEnablementTasks(T)

(***************************************************************************)
(* ASYNC GENERATION FUNCTIONS (lines 1544-1609)                            *)
(***************************************************************************)

\* PROMPTS.get(block_type): the template, or None.
PromptsGet(T, block_type) ==
  IF \E k \in 1..Len(T.PROMPTS) : T.PROMPTS[k].block_type = block_type
    THEN T.PROMPTS[CHOOSE k \in 1..Len(T.PROMPTS) :
                     T.PROMPTS[k].block_type = block_type].template
    ELSE [none |-> TRUE]

\* Mutant of NotTemplate: `prompt_template is None`.
NotTemplateNoneOnly(template) == "none" \in DOMAIN template

\* `not prompt_template`: None or the empty string.
NotTemplate(template) == "none" \in DOMAIN template \/ template.empty

\* A replacement field format(**params) cannot fill: a positional field always
\* (no positional argument is passed), a named field when params lacks the name.
Unfilled(field, params) ==
  "index" \in DOMAIN field \/ field.name \notin DOMAIN params

\* Mutant of Format: a missing name is filled with nothing instead of raising.
FormatFillingBlanks(template, params) == [raised |-> None]

\* prompt_template.format(**task["params"]): "ok", or the first field that fails.
Format(template, params) ==
  IF \E k \in 1..Len(template.fields) : Unfilled(template.fields[k], params)
    THEN LET k == CHOOSE h \in 1..Len(template.fields) :
                    /\ Unfilled(template.fields[h], params)
                    /\ \A g \in 1..(h - 1) : ~Unfilled(template.fields[g], params)
         IN IF "index" \in DOMAIN template.fields[k]
              THEN [raised |-> "IndexError"]
              ELSE [raised |-> "KeyError", name |-> template.fields[k].name]
    ELSE [raised |-> None]

\* Line 1553: the result for a block type without template.
UnknownBlockTypeResult(task) ==
  [key |-> task.output_key,
   content |-> <<"E","R","R","O","R",":"," ","U","n","k","n","o","w","n"," ",
                 "b","l","o","c","k"," ","t","y","p","e"," ">> \o task.block_type,
   error |-> TRUE]

\* Line 1559: str(KeyError(name)) is the repr of the name.
MissingParamResult(task, name) ==
  [key |-> task.output_key,
   content |-> <<"E","R","R","O","R",":"," ","M","i","s","s","i","n","g"," ",
                 "p","a","r","a","m"," ">> \o <<"'", name, "'">>,
   error |-> TRUE]

\* Mutant of SuccessResult: the result is keyed by the block type.
SuccessResultKeyedByType(task, r) ==
  [key |-> task.block_type,
   content |-> r.text,
   block_type |-> task.block_type,
   params |-> task.params,
   tokens_used |-> r.output_tokens]

\* Lines 1576-1583: the result of a call that returned.
SuccessResult(task, r) ==
  [key |-> task.output_key,
   content |-> r.text,
   block_type |-> task.block_type,
   params |-> task.params,
   tokens_used |-> r.output_tokens]

\* Mutant of FailureResult: the exception is not caught.
FailureNotCaught(task, r) == [exception |-> "Exception"]

\* Lines 1585-1586: the result of a call that raised.
FailureResult(task, r) ==
  [key |-> task.output_key,
   content |-> <<"E","R","R","O","R",":"," ">> \o r.error,
   error |-> TRUE]

\* Mutant of BeforeCall: `except Exception` around format, every rendering
\* fault becoming an error result.
BeforeCallCatchingAll(T, task) ==
  LET template == PromptsGet(T, task.block_type)
  IN IF NotTemplate(template)
       THEN [do |-> "return", value |-> UnknownBlockTypeResult(task)]
       ELSE LET f == Format(template, task.params)
            IN IF f.raised = None THEN [do |-> "call"]
               ELSE IF f.raised = "KeyError"
                 THEN [do |-> "return", value |-> MissingParamResult(task, f.name)]
                 ELSE [do |-> "return", value |-> MissingParamResult(task, "0")]

\* What generate_block does between acquiring the permit and its first await:
\* "return" with a result, "raise" out of the coroutine, or "call" the service.
BeforeCall(T, task) ==
  LET template == PromptsGet(T, task.block_type)
  IN IF NotTemplate(template)
       THEN [do |-> "return", value |-> UnknownBlockTypeResult(task)]
       ELSE LET f == Format(template, task.params)
            IN IF f.raised = None THEN [do |-> "call"]
               ELSE IF f.raised = "KeyError"
                 THEN [do |-> "return", value |-> MissingParamResult(task, f.name)]
                 ELSE [do |-> "raise", value |-> [exception |-> f.raised]]

\* Mutant of AfterCall: once a call has failed, every later call is reported
\* failed too (a failure flag shared by the tasks).
AfterCallSharingFailure(task, r) ==
  IF r.ok /\ \A j \in 1..Len(ret) : "error" \notin DOMAIN ret[j]
    THEN SuccessResult(task, r)
    ELSE FailureResult(task, [ok |-> FALSE, error |-> <<"failed">>])

\* What generate_block returns once client.messages.create has answered with r.
AfterCall(task, r) ==
  IF r.ok THEN SuccessResult(task, r) ELSE FailureResult(task, r)

\* What client.messages.create may do: return text and a token count, or raise.
Responses ==
  { [ok |-> TRUE, text |-> <<"generated text">>, output_tokens |-> 3],
    [ok |-> TRUE, text |-> <<"other generated text">>, output_tokens |-> 5],
    [ok |-> FALSE, error |-> <<"timeout">>] }

NoResponse == [ok |-> FALSE, pending |-> TRUE]

NoReturn == [pending |-> TRUE]

TaskIds == 1..Len(tasks)

\* Mutant of WakeUpNext: a released permit is handed to nobody.
WakeUpNextNobody(s, w, v) == [st |-> s, value |-> v]

\* asyncio.Semaphore._wake_up_next: the first waiter whose future is not done
\* gets the permit.  w is the waiter queue, s the task positions, v the counter.
WakeUpNext(s, w, v) ==
  IF \E k \in 1..Len(w) : s[w[k]] = "waiting"
    THEN LET k == CHOOSE h \in 1..Len(w) :
                    /\ s[w[h]] = "waiting"
                    /\ \A g \in 1..(h - 1) : s[w[g]] # "waiting"
         IN [st |-> [s EXCEPT ![w[k]] = "granted"], value |-> v - 1]
    ELSE [st |-> s, value |-> v]

\* Mutant of Release: the waiters are woken but the counter is not incremented.
ReleaseWithoutCounting(s, w, v) == WakeUpNext(s, w, v)

\* asyncio.Semaphore.release, at the exit of `async with semaphore`.
Release(s, w, v) == WakeUpNext(s, w, v + 1)

\* Mutant of Locked: the counter is not consulted.
LockedNever(w, v) == FALSE

\* Mutant of Locked: a task that starts always queues.
LockedAlways(w, v) == TRUE

\* Mutant of Locked: only the queue is consulted, not the counter.
LockedByWaitersOnly(w, v) == w # <<>>

\* Semaphore.locked()
Locked(w, v) == v = 0 \/ w # <<>>

\* Task i leaves generate_block with `value` (a result or an exception): the
\* permit is released and as_completed's _on_completion queues the future.
Leave(i, value, s, w, v) ==
  LET r == Release([s EXCEPT ![i] = "done"], w, v)
  IN /\ st' = r.st
     /\ sem_value' = r.value
     /\ waiters' = w
     /\ ret' = [ret EXCEPT ![i] = value]
     /\ done' = Append(done, i)

\* Task i holds a permit (s, w, v are the state after it got it) and runs up to
\* its first await or its return.
Enter(i, s, w, v) ==
  LET b == BeforeCall(tables, tasks[i])
  IN IF b.do = "call"
       THEN /\ st' = [s EXCEPT ![i] = "calling"]
            /\ sem_value' = v
            /\ waiters' = w
            /\ UNCHANGED <<ret, done>>
       ELSE Leave(i, b.value, s, w, v)

\* The event loop runs task i for the first time: `async with semaphore`
\* acquires at once when the semaphore is not locked, else the task queues.
StartTask(i) ==
  /\ pc \in {"generating", "direct"}
  /\ st[i] = "created"
  /\ IF Locked(waiters, sem_value)
       THEN /\ st' = [st EXCEPT ![i] = "waiting"]
            /\ waiters' = Append(waiters, i)
            /\ UNCHANGED <<sem_value, ret, done>>
       ELSE Enter(i, st, waiters, sem_value - 1)
  /\ UNCHANGED <<confirm, console, organized, report_file, tables, pc, main_tasks, max_concurrent, tasks, response,
                 results, progress>>

\* A waiter that was handed a permit resumes in acquire(): it leaves the queue,
\* passes a spare permit on, and enters the body.
ResumeTask(i) ==
  /\ pc \in {"generating", "direct"}
  /\ st[i] = "granted"
  /\ LET w == SelectSeq(waiters, LAMBDA j : j # i)
         n == IF sem_value > 0 THEN WakeUpNext(st, w, sem_value)
              ELSE [st |-> st, value |-> sem_value]
     IN Enter(i, n.st, w, n.value)
  /\ UNCHANGED <<confirm, console, organized, report_file, tables, pc, main_tasks, max_concurrent, tasks, response,
                 results, progress>>

\* Mutant of GenerateReturns: a call that raised is made again.
GenerateReturnsRetrying(i, r) ==
  /\ pc \in {"generating", "direct"}
  /\ st[i] = "calling"
  /\ response' = [response EXCEPT ![i] = r]
  /\ IF r.ok THEN Leave(i, AfterCall(tasks[i], r), st, waiters, sem_value)
     ELSE UNCHANGED <<st, sem_value, waiters, ret, done>>
  /\ UNCHANGED <<confirm, console, organized, report_file, tables, pc,
                 main_tasks, max_concurrent, tasks, results, progress>>

\* client.messages.create answers task i (returns or raises); generate_block
\* builds its result, leaves `async with` and returns.
GenerateReturns(i, r) ==
  /\ pc \in {"generating", "direct"}
  /\ st[i] = "calling"
  /\ response' = [response EXCEPT ![i] = r]
  /\ Leave(i, AfterCall(tasks[i], r), st, waiters, sem_value)
  /\ UNCHANGED <<confirm, console, organized, report_file, tables, pc, main_tasks, max_concurrent, tasks, results,
                 progress>>

\* if (i + 1) % 10 == 0: print(...)
ProgressEvery == 10

\* Mutant of Collect: the function returns with the first result.
CollectFirstOnly ==
  /\ pc \in {"generating", "direct"}
  /\ Len(results) < Len(done)
  /\ results' = Append(results, ret[done[Len(results) + 1]])
  /\ pc' = IF pc = "generating" THEN "main_returned" ELSE "returned"
  /\ UNCHANGED <<confirm, console, organized, report_file, tables, main_tasks, max_concurrent, tasks, st, sem_value,
                 waiters, response, ret, done, progress>>

\* Mutant of Collect: the progress test is made on i instead of i + 1.
CollectTestingIndex ==
  /\ pc \in {"generating", "direct"}
  /\ Len(results) < Len(done)
  /\ LET i == Len(results)
         result == ret[done[i + 1]]
     IN IF "exception" \in DOMAIN result
          THEN /\ pc' = IF pc = "generating" THEN "main_raised" ELSE "raised"
               /\ UNCHANGED <<results, progress>>
          ELSE /\ results' = Append(results, result)
               /\ progress' = IF i % ProgressEvery = 0
                                THEN Append(progress, i + 1) ELSE progress
               /\ pc' = IF i + 1 < Len(tasks) THEN pc
                        ELSE IF pc = "generating" THEN "main_returned"
                        ELSE "returned"
  /\ UNCHANGED <<confirm, console, organized, report_file, tables, main_tasks, max_concurrent,
                 tasks, st, sem_value, waiters, response, ret, done>>

\* One iteration of `for i, coro in enumerate(asyncio.as_completed(...))`:
\* the next completed future is awaited; its exception propagates, its result
\* is appended; after the last iteration the function returns.  Once an
\* exception has propagated, the tasks still pending are followed no further.
Collect ==
  /\ pc \in {"generating", "direct"}
  /\ Len(results) < Len(done)
  /\ LET i == Len(results)
         result == ret[done[i + 1]]
     IN IF "exception" \in DOMAIN result
          THEN /\ pc' = IF pc = "generating" THEN "main_raised" ELSE "raised"
               /\ UNCHANGED <<results, progress>>
          ELSE /\ results' = Append(results, result)
               /\ progress' = IF (i + 1) % ProgressEvery = 0
                                THEN Append(progress, i + 1) ELSE progress
               /\ pc' = IF i + 1 < Len(tasks) THEN pc
                        ELSE IF pc = "generating" THEN "main_returned"
                        ELSE "returned"
  /\ UNCHANGED <<confirm, console, organized, report_file, tables, main_tasks, max_concurrent, tasks, st, sem_value,
                 waiters, response, ret, done>>

\* generate_all_blocks(n) up to its first await: the semaphore, the catalog,
\* one coroutine per task, all scheduled by as_completed.  `running` and
\* `returned` are the caller's positions while it runs and when it returns
\* without awaiting (no task).
generate_all_blocks(n, running, returned) ==
  LET built == build_all_generation_tasks(tables)
  IN /\ max_concurrent' = n
     /\ sem_value' = n
     /\ waiters' = <<>>
     /\ tasks' = built
     /\ st' = [i \in 1..Len(built) |-> "created"]
     /\ response' = [i \in 1..Len(built) |-> NoResponse]
     /\ ret' = [i \in 1..Len(built) |-> NoReturn]
     /\ done' = <<>>
     /\ results' = <<>>
     /\ progress' = <<>>
     /\ pc' = IF built = <<>> THEN returned ELSE running

(***************************************************************************)
(* MAIN EXECUTION (lines 1665-1715)                                        *)
(***************************************************************************)

\* main() up to input(): the catalog is built to print what will be generated.
Main ==
  /\ pc = "start"
  /\ main_tasks' = build_all_generation_tasks(tables)
  /\ pc' = "confirm"
  /\ UNCHANGED <<confirm, console, organized, report_file, tables, max_concurrent, tasks, st, sem_value, waiters,
                 response, ret, done, results, progress>>

\* What the user may type at "Proceed? (y/n): ".
Answers == { <<"y">>, <<"Y">>, <<"n">>, <<>>, <<"y","e","s">> }

\* generate_all_blocks(max_concurrent=10), at line 1695 and as the default.
DefaultMaxConcurrent == 10

\* Mutant of Confirm: the answer is compared as typed, without lower().
ConfirmAsTyped(answer) ==
  /\ pc = "confirm"
  /\ confirm' = answer
  /\ IF answer # <<"y">>
       THEN /\ console' = Append(console, "Aborted.")
            /\ pc' = "aborted"
            /\ UNCHANGED <<max_concurrent, tasks, st, sem_value, waiters,
                           response, ret, done, results, progress>>
       ELSE /\ console' = Append(console, "Starting generation...")
            /\ generate_all_blocks(DefaultMaxConcurrent, "generating", "main_returned")
  /\ UNCHANGED <<organized, report_file, tables, main_tasks>>

\* if confirm.lower() != 'y': print("Aborted."); return
\* else asyncio.run(generate_all_blocks(max_concurrent=10))
Confirm(answer) ==
  /\ pc = "confirm"
  /\ confirm' = answer
  /\ IF lower(answer) # <<"y">>
       THEN /\ console' = Append(console, "Aborted.")
            /\ pc' = "aborted"
            /\ UNCHANGED <<max_concurrent, tasks, st, sem_value, waiters,
                           response, ret, done, results, progress>>
       ELSE /\ console' = Append(console, "Starting generation...")
            /\ generate_all_blocks(DefaultMaxConcurrent, "generating", "main_returned")
  /\ UNCHANGED <<organized, report_file, tables, main_tasks>>

\* Largest max_concurrent a direct caller of generate_all_blocks passes.
MaxConcurrent == 2

\* generate_all_blocks(n) awaited by a caller other than main.
CallGenerateAllBlocks(n) ==
  /\ pc = "start"
  /\ generate_all_blocks(n, "direct", "returned")
  /\ UNCHANGED <<confirm, console, organized, report_file, tables, main_tasks>>

(***************************************************************************)
(* organize_results (lines 1616-1662) and the end of main (1698-1715)      *)
(***************************************************************************)

\* Mutant of DictPut: setdefault, the value of a key already present is kept.
DictPutKeepingFirst(d, key, content) ==
  IF \E k \in 1..Len(d) : d[k].key = key
    THEN d
    ELSE Append(d, [key |-> key, content |-> content])

\* A Python dict as the sequence of its items in insertion order;
\* d[key] = content replaces the value of a key already present, in place.
DictPut(d, key, content) ==
  IF \E k \in 1..Len(d) : d[k].key = key
    THEN [k \in 1..Len(d) |->
            IF d[k].key = key THEN [key |-> key, content |-> content] ELSE d[k]]
    ELSE Append(d, [key |-> key, content |-> content])

\* r.get(field, default)
Get(r, field, default) == IF field \in DOMAIN r THEN r[field] ELSE default

\* Mutant of PrefixTests: the tests are made with the block type names.
PrefixTestsOnBlockTypes ==
  << [prefix |-> <<"e","x","e","c","u","t","i","v","e","_","s","u","m","m","a","r","y","_">>,
      bucket |-> "executive_summaries"],
     [prefix |-> <<"i","n","d","u","s","t","r","y","_","n","a","r","r","a","t","i","v","e","_">>,
      bucket |-> "industry_narratives"],
     [prefix |-> <<"s","o","l","u","t","i","o","n","_","d","e","s","c","r","i","p","t","i","o","n","_">>,
      bucket |-> "solution_descriptions"],
     [prefix |-> <<"c","a","t","e","g","o","r","y","_","a","n","c","h","o","r","_">>,
      bucket |-> "category_anchors"],
     [prefix |-> <<"i","m","p","a","c","t","_">>,
      bucket |-> "impact_explanations"],
     [prefix |-> <<"s","y","n","e","r","g","y","_">>,
      bucket |-> "synergies"],
     [prefix |-> <<"m","e","t","h","o","d","o","l","o","g","y","_">>,
      bucket |-> "methodology"],
     [prefix |-> <<"i","m","p","l","e","m","e","n","t","a","t","i","o","n","_","r","o","a","d","m","a","p","_">>,
      bucket |-> "roadmaps"],
     [prefix |-> <<"s","a","l","e","s","_","e","n","a","b","l","e","m","e","n","t","_">>,
      bucket |-> "sales_enablement"] >>

\* Mutant of PrefixTests: a test of sales_ for the strategic blocks stands before
\* the one of sales_enablement_.
PrefixTestsWithSales ==
  << [prefix |-> <<"e","x","e","c","u","t","i","v","e","_","s","u","m","m","a","r","y","_">>,
      bucket |-> "executive_summaries"],
     [prefix |-> <<"i","n","d","u","s","t","r","y","_">>,
      bucket |-> "industry_narratives"],
     [prefix |-> <<"s","o","l","u","t","i","o","n","_">>,
      bucket |-> "solution_descriptions"],
     [prefix |-> <<"c","a","t","e","g","o","r","y","_">>,
      bucket |-> "category_anchors"],
     [prefix |-> <<"i","m","p","a","c","t","_">>,
      bucket |-> "impact_explanations"],
     [prefix |-> <<"s","y","n","e","r","g","y","_">>,
      bucket |-> "synergies"],
     [prefix |-> <<"m","e","t","h","o","d","o","l","o","g","y","_">>,
      bucket |-> "methodology"],
     [prefix |-> <<"r","o","a","d","m","a","p","_">>,
      bucket |-> "roadmaps"],
     [prefix |-> <<"s","a","l","e","s","_">>,
      bucket |-> "strategic_blocks"],
     [prefix |-> <<"s","a","l","e","s","_","e","n","a","b","l","e","m","e","n","t","_">>,
      bucket |-> "sales_enablement"] >>

\* Lines 1641-1658: the prefixes tested, in order, and the bucket of each.
PrefixTests ==
  << [prefix |-> <<"e","x","e","c","u","t","i","v","e","_","s","u","m","m","a","r","y","_">>,
      bucket |-> "executive_summaries"],
     [prefix |-> <<"i","n","d","u","s","t","r","y","_">>,
      bucket |-> "industry_narratives"],
     [prefix |-> <<"s","o","l","u","t","i","o","n","_">>,
      bucket |-> "solution_descriptions"],
     [prefix |-> <<"c","a","t","e","g","o","r","y","_">>,
      bucket |-> "category_anchors"],
     [prefix |-> <<"i","m","p","a","c","t","_">>,
      bucket |-> "impact_explanations"],
     [prefix |-> <<"s","y","n","e","r","g","y","_">>,
      bucket |-> "synergies"],
     [prefix |-> <<"m","e","t","h","o","d","o","l","o","g","y","_">>,
      bucket |-> "methodology"],
     [prefix |-> <<"r","o","a","d","m","a","p","_">>,
      bucket |-> "roadmaps"],
     [prefix |-> <<"s","a","l","e","s","_","e","n","a","b","l","e","m","e","n","t","_">>,
      bucket |-> "sales_enablement"] >>

\* Line 1660: the bucket of the final else.
ElseBucket == "strategic_blocks"

\* The ten buckets, in the order the dict literal creates them.
BucketNames ==
  << "executive_summaries", "industry_narratives", "solution_descriptions",
     "category_anchors", "impact_explanations", "synergies", "methodology",
     "roadmaps", "strategic_blocks", "sales_enablement" >>

\* Mutant of Branches: a chain of `if` instead of `elif`, the else belonging to
\* the last test only.
BranchesOfIfChain(key) ==
  LET hits == SelectSeq(PrefixTests, LAMBDA t : startswith(key, t.prefix))
  IN [k \in 1..Len(hits) |-> hits[k].bucket]
     \o (IF startswith(key, PrefixTests[Len(PrefixTests)].prefix) THEN <<>>
         ELSE <<ElseBucket>>)

\* The if/elif/else chain: the buckets assigned to for `key`, in order (one:
\* that of the first prefix that matches, or the else bucket).
Branches(key) ==
  LET hits == SelectSeq(PrefixTests, LAMBDA t : startswith(key, t.prefix))
  IN IF hits # <<>> THEN <<hits[1].bucket>> ELSE <<ElseBucket>>

\* organized[b][key] = content, for each b of bs in turn.
RECURSIVE Assign(_, _, _, _)
Assign(org, bs, key, content) ==
  IF bs = <<>> THEN org
  ELSE Assign([org EXCEPT ![Head(bs)] = DictPut(@, key, content)],
              Tail(bs), key, content)

\* Mutant of Store: a failed block is left out of the document.
StoreUnlessError(org, result) ==
  IF Get(result, "error", FALSE) = TRUE THEN org
  ELSE Assign(org, Branches(result.key), result.key, result.content)

\* One iteration of `for result in results` (lines 1637-1660).
Store(org, result) ==
  Assign(org, Branches(result.key), result.key, result.content)

\* `for result in results`: the results are stored one after the other, here
\* the first half of the list and then the second (the test on `first` makes
\* the evaluation finish the first half before the second is begun; every
\* document has the metadata entry).
RECURSIVE StoreAll(_, _)
StoreAll(org, rs) ==
  IF rs = <<>> THEN org
  ELSE IF Len(rs) = 1 THEN Store(org, rs[1])
  ELSE LET half == Len(rs) \div 2
           first == StoreAll(org, SubSeq(rs, 1, half))
       IN IF "metadata" \in DOMAIN first
            THEN StoreAll(first, SubSeq(rs, half + 1, Len(rs)))
            ELSE first

\* sum(1 for r in results if r.get("error"))
CountErrors(rs) ==
  Cardinality({k \in 1..Len(rs) : Get(rs[k], "error", FALSE) = TRUE})

\* Mutant of SumTokens: equal token counts are added once.
SumTokensOfDistinct(rs) ==
  LET counts == {Get(rs[k], "tokens_used", 0) : k \in 1..Len(rs)}
  IN (IF 3 \in counts THEN 3 ELSE 0) + (IF 5 \in counts THEN 5 ELSE 0)

\* sum(r.get("tokens_used", 0) for r in results)
RECURSIVE SumTokens(_)
SumTokens(rs) ==
  IF rs = <<>> THEN 0
  ELSE IF Len(rs) = 1 THEN Get(rs[1], "tokens_used", 0)
  ELSE LET half == Len(rs) \div 2
       IN SumTokens(SubSeq(rs, 1, half)) + SumTokens(SubSeq(rs, half + 1, Len(rs)))

\* Lines 1618-1635: the document before the loop; `now` is datetime.now().
EmptyDocument(rs, now) ==
  [metadata |-> [generated_at |-> now,
                 total_blocks |-> Len(rs),
                 errors |-> CountErrors(rs),
                 total_tokens |-> SumTokens(rs)],
   executive_summaries |-> <<>>,
   industry_narratives |-> <<>>,
   solution_descriptions |-> <<>>,
   category_anchors |-> <<>>,
   impact_explanations |-> <<>>,
   synergies |-> <<>>,
   methodology |-> <<>>,
   roadmaps |-> <<>>,
   strategic_blocks |-> <<>>,
   sales_enablement |-> <<>>]

\* Mutant of organize_results: the loop ends at the first failed block.
OrganizeUntilError(rs, now) ==
  LET upto == IF \E k \in 1..Len(rs) : Get(rs[k], "error", FALSE) = TRUE
                THEN CHOOSE k \in 1..Len(rs) :
                       /\ Get(rs[k], "error", FALSE) = TRUE
                       /\ \A g \in 1..(k - 1) : Get(rs[g], "error", FALSE) # TRUE
                ELSE Len(rs)
  IN StoreAll(EmptyDocument(rs, now), SubSeq(rs, 1, upto))

organize_results(rs, now) == StoreAll(EmptyDocument(rs, now), rs)

NotOrganized == [pending |-> TRUE]

NoFile == [absent |-> TRUE]

\* What datetime.now().isoformat() may give.
Timestamps == {"2025-01-01T09:00:00", "2025-01-01T09:05:00"}

\* main after asyncio.run has returned: the results are organized and the
\* document is written to report_blocks.json.
MainSave(now) ==
  /\ pc = "main_returned"
  /\ organized' = organize_results(results, now)
  /\ report_file' = organized'
  /\ console' = console \o <<"GENERATION COMPLETE", "Output saved to: report_blocks.json">>
  /\ pc' = "main_done"
  /\ UNCHANGED <<tables, main_tasks, max_concurrent, tasks, st, sem_value,
                 waiters, response, ret, done, results, progress, confirm>>

\* organize_results(results) called on what a direct call returned.
OrganizeResults(now) ==
  /\ pc = "returned"
  /\ organized' = organize_results(results, now)
  /\ pc' = "organized"
  /\ UNCHANGED <<tables, main_tasks, max_concurrent, tasks, st, sem_value,
                 waiters, response, ret, done, results, progress, report_file,
                 confirm, console>>

(***************************************************************************)
(* The tables a run starts from.                                           *)
(***************************************************************************)

Take(s, n) == SubSeq(s, 1, n)

\* Every table empty; the templates as shipped.
EmptyTables ==
  [INDUSTRIES |-> <<>>, SOLUTIONS |-> <<>>, CATEGORIES |-> <<>>,
   SYNERGY_PAIRS |-> <<>>, RISK_TOLERANCES |-> <<>>, COMPLEXITY_LEVELS |-> <<>>,
   IMPACT_MATRIX |-> <<>>, PROMPTS |-> PROMPTS, single_blocks |-> <<>>,
   common_combos |-> <<>>]

\* PROMPTS with the template of one block type replaced.
SetTemplate(P, block_type, template) ==
  [k \in 1..Len(P) |->
     IF P[k].block_type = block_type THEN [P[k] EXCEPT !.template = template]
     ELSE P[k]]

\* Three roadmap tasks, every template satisfied.
PlainTables == [EmptyTables EXCEPT !.COMPLEXITY_LEVELS = COMPLEXITY_LEVELS]

\* Two categories: four category anchors.
TwoCategoriesTables == [EmptyTables EXCEPT !.CATEGORIES = Take(CATEGORIES, 2)]

\* The roadmap template asks for a parameter the catalog does not supply.
MissingParamTables ==
  [EmptyTables EXCEPT
     !.COMPLEXITY_LEVELS = Take(COMPLEXITY_LEVELS, 1),
     !.single_blocks = Take(single_blocks, 2),
     !.PROMPTS = SetTemplate(PROMPTS,
        <<"i","m","p","l","e","m","e","n","t","a","t","i","o","n","_","r","o","a","d","m","a","p">>,
        [empty |-> FALSE, fields |-> <<[name |-> "complexity"], [name |-> "timeline"]>>])]

\* The first solution's row with a cell of a type that has no template
\* (impact_critical), a SECONDARY cell and a MINIMAL cell.
UnknownTypeTables ==
  [EmptyTables EXCEPT
     !.SOLUTIONS = Take(SOLUTIONS, 1),
     !.IMPACT_MATRIX =
        << [IMPACT_MATRIX[1] EXCEPT !.categories =
              << [IMPACT_MATRIX[1].categories[1] EXCEPT
                    !.data.type = <<"C","R","I","T","I","C","A","L">>],
                 IMPACT_MATRIX[1].categories[5],
                 IMPACT_MATRIX[1].categories[6] >>] >>]

\* A single block whose template is the empty string.
EmptyTemplateTables ==
  [EmptyTables EXCEPT
     !.single_blocks = Take(single_blocks, 2),
     !.PROMPTS = SetTemplate(PROMPTS, <<"w","h","y","_","n","o","w">>,
                             [empty |-> TRUE, fields |-> <<>>])]

\* Two complexity levels that differ only in case: both give roadmap_low.
CollidingTables ==
  [EmptyTables EXCEPT
     !.COMPLEXITY_LEVELS = <<COMPLEXITY_LEVELS[1], <<"L","O","W">>>>,
     !.single_blocks = Take(single_blocks, 1)]

\* A single block whose template holds a positional field.
PositionalFieldTables ==
  [EmptyTables EXCEPT
     !.single_blocks = Take(single_blocks, 2),
     !.COMPLEXITY_LEVELS = Take(COMPLEXITY_LEVELS, 1),
     !.PROMPTS = SetTemplate(PROMPTS, <<"w","h","y","_","n","o","w">>,
                             [empty |-> FALSE, fields |-> <<[index |-> 0]>>])]

SmallTables ==
  { EmptyTables, PlainTables, TwoCategoriesTables, MissingParamTables,
    UnknownTypeTables, EmptyTemplateTables, CollidingTables,
    PositionalFieldTables }

\* The shipped matrix with its first cell set to MINIMAL.
FewerImpactsMatrix ==
  [IMPACT_MATRIX EXCEPT ![1].categories[1].data.type = <<"M","I","N","I","M","A","L">>]

\* The shipped pairs and one more whose second name agrees with that of the
\* first pair on its first 15 characters ("Inventory Planning").
CloseSynergyPairs ==
  Append(SYNERGY_PAIRS,
         <<SYNERGY_PAIRS[1][1], Take(SYNERGY_PAIRS[1][2], 18),
           SYNERGY_PAIRS[1][3], SYNERGY_PAIRS[1][4]>>)

\* The shipped tables, and the shipped tables with some of them edited.
CatalogTables ==
  { [ShippedTables EXCEPT !.RISK_TOLERANCES = r, !.INDUSTRIES = i,
                          !.COMPLEXITY_LEVELS = c, !.IMPACT_MATRIX = m,
                          !.SYNERGY_PAIRS = s] :
      r \in {RISK_TOLERANCES, Take(RISK_TOLERANCES, 2)},
      i \in {INDUSTRIES, Take(INDUSTRIES, 3)},
      c \in {COMPLEXITY_LEVELS, Take(COMPLEXITY_LEVELS, 2)},
      m \in {IMPACT_MATRIX, FewerImpactsMatrix},
      s \in {SYNERGY_PAIRS, CloseSynergyPairs} }

InitWith(Tables) ==
  /\ tables \in Tables
  /\ pc = "start"
  /\ main_tasks = <<>>
  /\ max_concurrent = 0
  /\ tasks = <<>>
  /\ st = <<>>
  /\ sem_value = 0
  /\ waiters = <<>>
  /\ response = <<>>
  /\ ret = <<>>
  /\ done = <<>>
  /\ results = <<>>
  /\ progress = <<>>
  /\ organized = NotOrganized
  /\ report_file = NoFile
  /\ confirm = None
  /\ console = <<>>

Init == InitWith(SmallTables)

Next ==
  \/ Main
  \/ \E answer \in Answers : Confirm(answer)
  \/ \E n \in 0..MaxConcurrent : CallGenerateAllBlocks(n)
  \/ \E i \in TaskIds : StartTask(i)
  \/ \E i \in TaskIds : ResumeTask(i)
  \/ \E i \in TaskIds : \E r \in Responses : GenerateReturns(i, r)
  \/ Collect
  \/ \E now \in Timestamps : MainSave(now)
  \/ \E now \in Timestamps : OrganizeResults(now)

Spec == Init /\ [][Next]_vars

\* The runs of the three-task catalogs under fair scheduling: the event loop runs every task that is
\* ready (first step, resumption after acquire, the collecting loop), and every
\* call to client.messages.create is answered.
\* The catalogs of three tasks.
FairTables ==
  {PlainTables, MissingParamTables, UnknownTypeTables, CollidingTables}

FairInit == InitWith(FairTables)

FairSpec ==
  /\ FairInit
  /\ [][Next]_vars
  /\ WF_vars(\E i \in TaskIds : StartTask(i))
  /\ WF_vars(\E i \in TaskIds : ResumeTask(i))
  /\ WF_vars(\E i \in TaskIds : \E r \in Responses : GenerateReturns(i, r))
  /\ WF_vars(Collect)

\* Catalog construction alone, on the shipped tables and edits of them: main up
\* to the prompt, and generate_all_blocks up to the launch of its tasks.
CatalogInit == InitWith(CatalogTables)

CatalogNext ==
  \/ Main
  \/ \E answer \in Answers : Confirm(answer)

CatalogSpec == CatalogInit /\ [][CatalogNext]_vars

(***************************************************************************)
(* A sequential batch: generate_all_blocks(1) on catalogs of 15 and 20     *)
(* tasks, the tasks taken by the event loop in list order, every first     *)
(* step run before a call is answered, and few calls failing.              *)
(***************************************************************************)

\* The three risk tolerances: 12 executive summaries and 3 methodologies.
TwelveSummariesTables == [EmptyTables EXCEPT !.RISK_TOLERANCES = RISK_TOLERANCES]

\* The same with the three roadmaps and two single blocks: 20 tasks.
TwentyTasksTables ==
  [EmptyTables EXCEPT !.RISK_TOLERANCES = RISK_TOLERANCES,
                      !.COMPLEXITY_LEVELS = COMPLEXITY_LEVELS,
                      !.single_blocks = Take(single_blocks, 2)]

BatchTables == {TwelveSummariesTables, TwentyTasksTables}

\* What client.messages.create does in a batch: return, or raise.
BatchResponses ==
  { [ok |-> TRUE, text |-> <<"generated text">>, output_tokens |-> 3],
    [ok |-> FALSE, error |-> <<"timeout">>] }

\* Largest number of calls that fail in a batch.
BatchFailures == 1

FailedCalls == {i \in TaskIds : response[i] # NoResponse /\ ~response[i].ok}

\* The event loop runs the first step of the tasks in list order.
StartInOrder(i) ==
  /\ \A j \in 1..(i - 1) : st[j] # "created"
  /\ StartTask(i)

\* A call is answered once every task has run its first step.
AnswerInBatch(i, r) ==
  /\ \A j \in TaskIds : st[j] # "created"
  /\ r.ok \/ Cardinality(FailedCalls) < BatchFailures
  /\ GenerateReturns(i, r)

BatchInit == InitWith(BatchTables)

BatchNext ==
  \/ CallGenerateAllBlocks(1)
  \/ \E i \in TaskIds : StartInOrder(i)
  \/ \E i \in TaskIds : ResumeTask(i)
  \/ \E i \in TaskIds : \E r \in BatchResponses : AnswerInBatch(i, r)
  \/ Collect
  \/ \E now \in Timestamps : OrganizeResults(now)

BatchSpec == BatchInit /\ [][BatchNext]_vars

(***************************************************************************)
(* Properties                                                              *)
(***************************************************************************)

Returned == pc \in {"returned", "main_returned"}

Launched == pc \in {"generating", "direct", "returned", "main_returned",
                    "raised", "main_raised"}

\* Tasks inside the external call: past `await asyncio.to_thread(...)`, not yet back.
InFlight == {i \in TaskIds : st[i] = "calling"}

Called(i) == response[i] # NoResponse

Finished(i) == st[i] = "done" /\ "exception" \notin DOMAIN ret[i]

ErrorTagged(result) == "error" \in DOMAIN result /\ result.error = TRUE

ErrorPrefix == <<"E","R","R","O","R",":">>

MissingParamPrefix ==
  <<"E","R","R","O","R",":"," ","M","i","s","s","i","n","g"," ","p","a","r","a","m"," ">>

DistinctKeys(ts) ==
  \A a, b \in 1..Len(ts) : a # b => ts[a].output_key # ts[b].output_key

\* Task i's template exists and names a parameter that the task's params lack,
\* with no positional field before it.
LacksParam(i) ==
  LET template == PromptsGet(tables, tasks[i].block_type)
  IN /\ ~NotTemplate(template)
     /\ \E k \in 1..Len(template.fields) :
          /\ "name" \in DOMAIN template.fields[k]
          /\ template.fields[k].name \notin DOMAIN tasks[i].params
          /\ \A g \in 1..(k - 1) : "name" \in DOMAIN template.fields[g]

\* The result of a task that was called carries what the call did for that task.
CarriesOwnResponse(j) ==
  IF response[j].ok
    THEN ret[j].content = response[j].text /\ ~ErrorTagged(ret[j])
    ELSE ret[j].content = <<"E","R","R","O","R",":"," ">> \o response[j].error
         /\ ErrorTagged(ret[j])

\* C1: when generate_all_blocks returns, results holds exactly one result per
\* task: as many results as tasks, the k-th result being the value returned by
\* the k-th task to complete, each task completing once, and each result keyed
\* by the output_key of the task that produced it.
C1_Totality ==
  Returned =>
    /\ Len(results) = Len(tasks)
    /\ Len(done) = Len(tasks)
    /\ {done[k] : k \in 1..Len(done)} = TaskIds
    /\ \A k \in 1..Len(results) :
         /\ results[k] = ret[done[k]]
         /\ results[k].key = tasks[done[k]].output_key

\* C1 witness: a batch has returned in which one task succeeded, one lacked a
\* parameter and one had its call fail.
C1_Witness ==
  /\ Returned
  /\ \E i, j, k \in TaskIds :
       /\ Called(i) /\ response[i].ok
       /\ LacksParam(j)
       /\ Called(k) /\ ~response[k].ok

\* C2: with max_concurrent >= 1, at most max_concurrent tasks are inside the
\* external call at any time.
C2_ConcurrencyBound ==
  max_concurrent >= 1 => Cardinality(InFlight) <= max_concurrent

\* C2 witness: the bound is reached while another task waits for a permit.
C2_Witness ==
  /\ max_concurrent = 2
  /\ Cardinality(InFlight) = 2
  /\ \E i \in TaskIds : st[i] = "waiting"

\* C3: the content and the error status of every finished task are determined by
\* that task and by what the external call did for that task alone, whatever the
\* calls of the other tasks did: a task that was called carries its own response,
\* a task that was not called carries the error its own template and params give.
C3_Isolation ==
  \A j \in TaskIds :
    Finished(j) =>
      IF Called(j) THEN CarriesOwnResponse(j)
      ELSE /\ ErrorTagged(ret[j])
           /\ ret[j] = BeforeCall(tables, tasks[j]).value

\* C3 witness: a task's call succeeded after the call of another task had failed.
C3_Witness ==
  \E a, b \in 1..Len(done) :
    /\ a < b
    /\ Called(done[a]) /\ ~response[done[a]].ok
    /\ Called(done[b]) /\ response[done[b]].ok

\* C4: a call that raises gives its task an error-tagged result whose content
\* begins with "ERROR:"; no exception of a call reaches generate_all_blocks (it
\* raises only for a task that was never called), and a batch with failed calls
\* still returns one result per task.
C4_GenerateFailureCaught ==
  /\ \A i \in TaskIds :
       (Called(i) /\ ~response[i].ok) =>
         /\ st[i] = "done"
         /\ "exception" \notin DOMAIN ret[i]
         /\ ErrorTagged(ret[i])
         /\ startswith(ret[i].content, ErrorPrefix)
  /\ pc \in {"raised", "main_raised"} =>
       ~Called(done[Len(results) + 1])
  /\ (Returned /\ \E i \in TaskIds : Called(i) /\ ~response[i].ok) =>
       Len(results) = Len(tasks)

\* C4 witness: a batch has returned although the first call to complete failed.
C4_Witness ==
  /\ Returned
  /\ Len(done) >= 2
  /\ Called(done[1]) /\ ~response[done[1]].ok

\* C5: a task whose params lack a parameter of its template is never inside the
\* external call, and finishes with an error-tagged result under its own key whose
\* content begins with "ERROR: Missing param "; the tasks that were called carry
\* their own responses all the same.
C5_MissingParam ==
  \A i \in TaskIds :
    LacksParam(i) =>
      /\ st[i] # "calling"
      /\ ~Called(i)
      /\ st[i] = "done" =>
           /\ ErrorTagged(ret[i])
           /\ ret[i].key = tasks[i].output_key
           /\ startswith(ret[i].content, MissingParamPrefix)
           /\ \A j \in TaskIds \ {i} :
                (Finished(j) /\ Called(j)) => CarriesOwnResponse(j)

\* C5 witness: a task lacking a parameter has finished and another task's call
\* has returned text.
C5_Witness ==
  \E i, j \in TaskIds :
    /\ LacksParam(i) /\ st[i] = "done"
    /\ Finished(j) /\ Called(j) /\ response[j].ok

\* C6: when generate_all_blocks returns, every launched task has completed and
\* been collected: none waits for a permit, none holds one, none is inside the
\* external call.
C6_JoinedAtReturn ==
  Returned =>
    /\ Len(results) = Len(tasks)
    /\ \A i \in TaskIds : st[i] = "done"
    /\ waiters = <<>>
    /\ InFlight = {}

\* C6 witness: a batch with more tasks than permits has returned.
C6_Witness ==
  /\ pc = "returned"
  /\ max_concurrent >= 1
  /\ max_concurrent < Len(tasks)

\* C7: over the shipped tables, no two tasks of the catalog have the same
\* output_key, at either call of build_all_generation_tasks.
C7_UniqueKeys ==
  tables = ShippedTables =>
    /\ pc # "start" => DistinctKeys(main_tasks)
    /\ pc = "generating" => DistinctKeys(tasks)

\* C7 witness: the catalog of the shipped tables has been built, with synergy and
\* sales-enablement keys that were cut.
C7_Witness ==
  /\ tables = ShippedTables
  /\ pc = "confirm"
  /\ \E a, b \in 1..Len(main_tasks) :
       /\ main_tasks[a].output_key = SynergyKey(SYNERGY_PAIRS[1][1], SYNERGY_PAIRS[1][2])
       /\ Len(main_tasks[a].output_key) = 8 + SynergyKeyLen + 1 + SynergyKeyLen
       /\ main_tasks[b].output_key = SalesEnablementKey(common_combos[1][1])
       /\ Len(main_tasks[b].output_key) = 17 + SalesKeyLen

\* C8 (as claimed): when two keys of the catalog collide, the run fails before
\* any task is executed: no task enters the external call and no result is
\* produced.
C8_FailFastOnCollision ==
  (Launched /\ ~DistinctKeys(tasks)) =>
    /\ InFlight = {}
    /\ \A i \in TaskIds : ~Called(i)
    /\ results = <<>>

ImpactPrefix == <<"i","m","p","a","c","t","_">>

ImpactTaskIds(ts) == {k \in 1..Len(ts) : startswith(ts[k].block_type, ImpactPrefix)}

NonMinimalCells(T) ==
  LET cells == MatrixCells(T)
  IN {k \in 1..Len(cells) : cells[k].data.type # <<"M","I","N","I","M","A","L">>}

\* C10: the catalog holds an impact task for a cell of the matrix exactly when
\* the cell's type is not MINIMAL, and as many impact tasks as there are such
\* cells: 55 of 63 for the shipped matrix.
C10_ImpactFilter ==
  LET cells == MatrixCells(tables)
      kept == NonMinimalCells(tables)
      impact == ImpactTaskIds(main_tasks)
  IN pc # "start" =>
       /\ \A c \in 1..Len(cells) :
            (\E k \in impact :
               /\ main_tasks[k].params.solution = cells[c].solution
               /\ main_tasks[k].params.category = cells[c].category)
            <=> c \in kept
       /\ Cardinality(impact) = Cardinality(kept)
       /\ tables.IMPACT_MATRIX = IMPACT_MATRIX =>
            /\ Len(cells) = 63
            /\ Cardinality(impact) = 55

\* C10 witness: the catalog of the shipped matrix has been built, with its 55
\* impact tasks and with a MINIMAL cell left out.
C10_Witness ==
  /\ pc = "confirm"
  /\ tables.IMPACT_MATRIX = IMPACT_MATRIX
  /\ Cardinality(ImpactTaskIds(main_tasks)) = 55
  /\ Len(MatrixCells(tables)) > Cardinality(NonMinimalCells(tables))


(***************************************************************************)
(* Aggregation                                                             *)
(***************************************************************************)

\* organize_results has returned.
Organized == pc \in {"organized", "main_done"}

DistinctResultKeys ==
  \A a, b \in 1..Len(results) : a # b => results[a].key # results[b].key

Buckets == {BucketNames[k] : k \in 1..Len(BucketNames)}

\* The keys of a dict.
DictKeys(d) == {d[k].key : k \in 1..Len(d)}

\* A dict as the set of its (key, content) items, insertion order forgotten.
DictItems(d) == {<<d[k].key, d[k].content>> : k \in 1..Len(d)}

RECURSIVE SumOfSizes(_, _)
SumOfSizes(org, names) ==
  IF names = <<>> THEN 0
  ELSE Len(org[Head(names)]) + SumOfSizes(org, Tail(names))

\* C11: once organize_results has returned on results with pairwise distinct
\* keys, the key of every result is a key of exactly one of the ten buckets,
\* and the sizes of the ten buckets add up to metadata.total_blocks.
C11_Partition ==
  (Organized /\ DistinctResultKeys) =>
     /\ \A k \in 1..Len(results) :
          Cardinality({b \in Buckets : results[k].key \in DictKeys(organized[b])}) = 1
     /\ SumOfSizes(organized, BucketNames) = organized.metadata.total_blocks

\* C11 witness: a document built from three results with distinct keys that
\* fill two buckets (a roadmap and two strategic blocks).
C11_Witness ==
  /\ Organized
  /\ DistinctResultKeys
  /\ Len(results) = 3
  /\ Len(organized["roadmaps"]) = 1
  /\ Len(organized["strategic_blocks"]) = 2

\* What of a document does not depend on the clock: the items of each bucket
\* and the three counts.
DocumentContent(org) ==
  [buckets |-> [b \in Buckets |-> DictItems(org[b])],
   total_blocks |-> org.metadata.total_blocks,
   errors |-> org.metadata.errors,
   total_tokens |-> org.metadata.total_tokens]

Reorder(rs, p) == [k \in 1..Len(rs) |-> rs[p[k]]]

\* C12: with pairwise distinct keys, organize_results gives for every
\* permutation of the result list the same items in each bucket and the same
\* total_blocks, errors and total_tokens as for the list in its order of
\* arrival.
C12_OrderIndependent ==
  (Organized /\ DistinctResultKeys) =>
     \A p \in Permutations(1..Len(results)) :
        DocumentContent(organize_results(Reorder(results, p),
                                         organized.metadata.generated_at))
          = DocumentContent(organized)

\* C12 witness: a document built from three or more results that arrived in
\* another order than the catalog's, one of them failed and not the last.
C12_Witness ==
  /\ Organized
  /\ DistinctResultKeys
  /\ Len(results) >= 3
  /\ \E a, b \in 1..Len(done) : a < b /\ done[a] > done[b]
  /\ \E k \in 1..(Len(results) - 1) : ErrorTagged(results[k])
  /\ \E k \in 1..Len(results) : ~ErrorTagged(results[k])

\* The output tokens of the calls of the tasks in S that returned.
RECURSIVE TokensOfCalls(_)
TokensOfCalls(S) ==
  IF S = {} THEN 0
  ELSE LET i == CHOOSE j \in S : TRUE
       IN (IF response[i].ok THEN response[i].output_tokens ELSE 0)
          + TokensOfCalls(S \ {i})

\* C13: in the document, total_blocks is the number of results, errors the
\* number of results whose error flag is true, and total_tokens the sum of the
\* output tokens of the calls that returned; a result with the error flag adds
\* nothing to total_tokens.
C13_MetadataReductions ==
  Organized =>
     /\ organized.metadata.total_blocks = Len(results)
     /\ organized.metadata.errors
          = Cardinality({k \in 1..Len(results) : ErrorTagged(results[k])})
     /\ organized.metadata.total_tokens = TokensOfCalls(TaskIds)
     /\ \A k \in 1..Len(results) :
          ErrorTagged(results[k]) => Get(results[k], "tokens_used", 0) = 0

\* C13 witness: a document over two successes with the same token count, a
\* success with another, and a failure.
C13_Witness ==
  /\ Organized
  /\ Len(results) = 4
  /\ organized.metadata.errors = 1
  /\ organized.metadata.total_tokens = 11

ExecutiveSummaryType ==
  <<"e","x","e","c","u","t","i","v","e","_","s","u","m","m","a","r","y">>

ExecutiveSummaryIds == {i \in TaskIds : tasks[i].block_type = ExecutiveSummaryType}

\* The bucket that holds `key` in the document, when one does.
BucketHolding(org, key) == CHOOSE b \in Buckets : key \in DictKeys(org[b])

\* C14: in the document, a task whose call failed has the entry (its key,
\* "ERROR: " and the message) in the bucket where organize_results files a
\* successful result of the same task; and when the catalog has 12 executive
\* summaries and the one call that failed is one of them, executive_summaries
\* has 12 entries, 11 with generated text and one starting with "ERROR:", and
\* metadata.errors is 1.
C14_ErrorInPlace ==
  Organized =>
     /\ \A i \in FailedCalls :
          LET key == tasks[i].output_key
              ok == [ok |-> TRUE, text |-> <<"generated text">>, output_tokens |-> 3]
              alone == organize_results(<<SuccessResult(tasks[i], ok)>>,
                                        organized.metadata.generated_at)
          IN /\ \E b \in Buckets : key \in DictKeys(organized[b])
             /\ <<key, <<"E","R","R","O","R",":"," ">> \o response[i].error>>
                  \in DictItems(organized[BucketHolding(organized, key)])
             /\ key \in DictKeys(alone[BucketHolding(organized, key)])
     /\ (/\ Cardinality(ExecutiveSummaryIds) = 12
         /\ Cardinality(FailedCalls) = 1
         /\ FailedCalls \subseteq ExecutiveSummaryIds)
        => LET d == organized["executive_summaries"]
           IN /\ Len(d) = 12
              /\ DictKeys(d) = {tasks[i].output_key : i \in ExecutiveSummaryIds}
              /\ Cardinality({k \in 1..Len(d) : startswith(d[k].content, ErrorPrefix)}) = 1
              /\ Cardinality({k \in 1..Len(d) : d[k].content = <<"generated text">>}) = 11
              /\ organized.metadata.errors = 1

\* C14 witness: the document of a batch with 12 executive summaries in which
\* the call of the fifth failed and no other.
C14_Witness ==
  /\ Organized
  /\ Cardinality(ExecutiveSummaryIds) = 12
  /\ FailedCalls = {5}
  /\ startswith(organized["executive_summaries"][5].content, ErrorPrefix)
  /\ organized.metadata.total_blocks >= 15

(***************************************************************************)
(* Progress                                                                *)
(***************************************************************************)

FamilyBuckets ==
  << <<<<"e","x","e","c","u","t","i","v","e","_","s","u","m","m","a","r","y">>,
       "executive_summaries">>,
     <<<<"i","n","d","u","s","t","r","y","_","n","a","r","r","a","t","i","v","e">>,
       "industry_narratives">>,
     <<<<"s","o","l","u","t","i","o","n","_","d","e","s","c","r","i","p","t","i","o","n">>,
       "solution_descriptions">>,
     <<<<"c","a","t","e","g","o","r","y","_","a","n","c","h","o","r">>,
       "category_anchors">>,
     <<<<"s","y","n","e","r","g","y">>,
       "synergies">>,
     <<<<"m","e","t","h","o","d","o","l","o","g","y">>,
       "methodology">>,
     <<<<"i","m","p","l","e","m","e","n","t","a","t","i","o","n","_","r","o","a","d","m","a","p">>,
       "roadmaps">>,
     <<<<"s","a","l","e","s","_","e","n","a","b","l","e","m","e","n","t">>,
       "sales_enablement">> >>

\* The bucket of the family of a block type: impact_* is one family, the block
\* types of the table above one each, and every other block type is a
\* single block.
FamilyBucket(block_type) ==
  IF startswith(block_type, ImpactPrefix) THEN "impact_explanations"
  ELSE IF \E k \in 1..Len(FamilyBuckets) : FamilyBuckets[k][1] = block_type
    THEN FamilyBuckets[CHOOSE k \in 1..Len(FamilyBuckets) :
                         FamilyBuckets[k][1] = block_type][2]
    ELSE "strategic_blocks"

\* The document organize_results builds when every task of ts succeeded.
DocumentOf(ts) ==
  organize_results(
    [k \in 1..Len(ts) |->
       SuccessResult(ts[k], [ok |-> TRUE, text |-> <<"generated text">>,
                             output_tokens |-> 3])],
    "2025-01-01T09:00:00")

\* C15: in the document built from the results of the catalog's tasks, the key
\* of every task is in the bucket of the family of its block type and in no
\* other, and the keys of strategic_blocks are exactly the keys of the seven
\* single blocks.
C15_FamilyBuckets ==
  pc # "start" =>
    LET doc == DocumentOf(main_tasks)
    IN /\ \A k \in 1..Len(main_tasks) :
            {b \in Buckets : main_tasks[k].output_key \in DictKeys(doc[b])}
              = {FamilyBucket(main_tasks[k].block_type)}
       /\ DictKeys(doc["strategic_blocks"])
            = {tables.single_blocks[k][3] : k \in 1..Len(tables.single_blocks)}
       /\ Len(doc["strategic_blocks"]) = 7

\* C15 witness: the catalog of the shipped tables has been built; it has tasks
\* of the ten families, risk_factors among the single blocks.
C15_Witness ==
  /\ tables = ShippedTables
  /\ pc = "confirm"
  /\ {FamilyBucket(main_tasks[k].block_type) : k \in 1..Len(main_tasks)} = Buckets
  /\ \E k \in 1..Len(main_tasks) :
       /\ main_tasks[k].output_key = <<"r","i","s","k","_","f","a","c","t","o","r","s">>
       /\ FamilyBucket(main_tasks[k].block_type) = "strategic_blocks"

\* The families in the order the claim lists them, impact where the code
\* emits it (after the category anchors).
CatalogFamilies ==
  << "executive_summaries", "industry_narratives", "solution_descriptions",
     "category_anchors", "impact_explanations", "synergies", "methodology",
     "roadmaps", "strategic_blocks", "sales_enablement" >>

FamilyRank(block_type) ==
  CHOOSE r \in 1..Len(CatalogFamilies) : CatalogFamilies[r] = FamilyBucket(block_type)

FamilyCount(ts, family) ==
  Cardinality({k \in 1..Len(ts) : FamilyBucket(ts[k].block_type) = family})

\* C16: the catalog has 4 executive summaries per risk tolerance, 3 industry
\* narratives per industry, one solution description per solution, 2 category
\* anchors per category, one synergy task per pair, one methodology per risk
\* tolerance, one roadmap per complexity level, 7 single blocks and one
\* sales-enablement task per tuple; for the shipped tables 12, 21, 9, 14, 10,
\* 3, 3, 7 and 10, with 55 impact tasks 144 in all; and the tasks come family
\* by family in the order of that list.
C16_FamilyCounts ==
  pc # "start" =>
    /\ FamilyCount(main_tasks, "executive_summaries") = Len(tables.RISK_TOLERANCES) * 4
    /\ FamilyCount(main_tasks, "industry_narratives") = Len(tables.INDUSTRIES) * 3
    /\ FamilyCount(main_tasks, "solution_descriptions") = Len(tables.SOLUTIONS)
    /\ FamilyCount(main_tasks, "category_anchors") = Len(tables.CATEGORIES) * 2
    /\ FamilyCount(main_tasks, "synergies") = Len(tables.SYNERGY_PAIRS)
    /\ FamilyCount(main_tasks, "methodology") = Len(tables.RISK_TOLERANCES)
    /\ FamilyCount(main_tasks, "roadmaps") = Len(tables.COMPLEXITY_LEVELS)
    /\ FamilyCount(main_tasks, "strategic_blocks") = 7
    /\ FamilyCount(main_tasks, "sales_enablement") = Len(tables.common_combos)
    /\ \A a, b \in 1..Len(main_tasks) :
         a < b => FamilyRank(main_tasks[a].block_type) <= FamilyRank(main_tasks[b].block_type)
    /\ tables = ShippedTables =>
         /\ [r \in 1..Len(CatalogFamilies) |-> FamilyCount(main_tasks, CatalogFamilies[r])]
              = <<12, 21, 9, 14, 55, 10, 3, 3, 7, 10>>
         /\ Len(main_tasks) = 144

\* C16 witness: the catalog of the shipped tables has been built: 144 tasks,
\* the first an executive summary and the last a sales-enablement block.
C16_Witness ==
  /\ tables = ShippedTables
  /\ pc = "confirm"
  /\ Len(main_tasks) = 144
  /\ FamilyRank(main_tasks[1].block_type) = 1
  /\ FamilyRank(main_tasks[144].block_type) = 10

\* The block type the claim gives for an impact type.
ImpactBlockTypes ==
  << <<<<"P","R","I","M","A","R","Y">>, <<"i","m","p","a","c","t","_","p","r","i","m","a","r","y">>>>,
     <<<<"S","E","C","O","N","D","A","R","Y">>, <<"i","m","p","a","c","t","_","s","e","c","o","n","d","a","r","y">>>>,
     <<<<"T","E","R","T","I","A","R","Y">>, <<"i","m","p","a","c","t","_","t","e","r","t","i","a","r","y">>>> >>

\* The matrix cell an impact task was made from.
CellOf(T, task) ==
  LET cells == MatrixCells(T)
  IN cells[CHOOSE c \in 1..Len(cells) :
             /\ cells[c].solution = task.params.solution
             /\ cells[c].category = task.params.category]

\* C17: the block type of an impact task is the one the table above gives for
\* the impact type of its matrix cell (PRIMARY impact_primary, SECONDARY
\* impact_secondary, TERTIARY impact_tertiary); the impact block types of the
\* catalog are those three, and each has a non-empty template in PROMPTS.
C17_ImpactBlockType ==
  pc # "start" =>
    LET impact == ImpactTaskIds(main_tasks)
        types == {main_tasks[k].block_type : k \in impact}
    IN /\ \A k \in impact :
            \E t \in 1..Len(ImpactBlockTypes) :
               /\ CellOf(tables, main_tasks[k]).data.type = ImpactBlockTypes[t][1]
               /\ main_tasks[k].block_type = ImpactBlockTypes[t][2]
       /\ types = {ImpactBlockTypes[t][2] : t \in 1..Len(ImpactBlockTypes)}
       /\ Cardinality(types) = 3
       /\ \A bt \in types : ~NotTemplate(PromptsGet(tables, bt))

\* C17 witness: the catalog of the shipped matrix has been built, with impact
\* tasks made from a PRIMARY, a SECONDARY and a TERTIARY cell.
C17_Witness ==
  /\ pc = "confirm"
  /\ tables.IMPACT_MATRIX = IMPACT_MATRIX
  /\ \A t \in 1..Len(ImpactBlockTypes) :
       \E k \in ImpactTaskIds(main_tasks) :
          /\ CellOf(tables, main_tasks[k]).data.type = ImpactBlockTypes[t][1]
          /\ main_tasks[k].block_type = ImpactBlockTypes[t][2]

(***************************************************************************)
(* Result shape and suspension                                             *)
(***************************************************************************)

\* C18: the value every task returns, after a call that returned and after a
\* failure alike, has the task's output_key as key, a content, the task's
\* block_type and params, an error flag (absent read as false) and a token
\* count (absent read as 0) that is 0 when the error flag is set.
C18_ResultShape ==
  \A i \in TaskIds :
     Finished(i) =>
        /\ ret[i].key = tasks[i].output_key
        /\ "content" \in DOMAIN ret[i]
        /\ Get(ret[i], "error", FALSE) \in BOOLEAN
        /\ "block_type" \in DOMAIN ret[i] /\ ret[i].block_type = tasks[i].block_type
        /\ "params" \in DOMAIN ret[i] /\ ret[i].params = tasks[i].params
        /\ Get(ret[i], "error", FALSE) = TRUE => Get(ret[i], "tokens_used", 0) = 0

\* Tasks that hold a permit: inside the call, or handed a permit in acquire().
PermitHolders == {i \in TaskIds : st[i] \in {"calling", "granted"}}

\* C20 as stated: no task is ever suspended in the acquisition of the
\* semaphore.
C20_NeverWaiting ==
  \A i \in TaskIds : st[i] \notin {"waiting", "granted"}

\* C20 amended: a task that has started and not returned is suspended either
\* in the external call or in the acquisition of the semaphore, and one is
\* left waiting in the acquisition only while max_concurrent tasks hold a
\* permit, or while a waiter queued before it has been handed a permit and
\* has not resumed yet.
C20_WaitsOnlyWhenFull ==
  \A i \in TaskIds :
     /\ st[i] \in {"created", "waiting", "granted", "calling", "done"}
     /\ st[i] = "waiting" =>
          \/ sem_value = 0 /\ Cardinality(PermitHolders) = max_concurrent
          \/ \E k \in 1..Len(waiters) :
                /\ st[waiters[k]] = "granted"
                /\ \E h \in (k + 1)..Len(waiters) : waiters[h] = i

\* C20 witness: with one permit, a waiter has just been handed the permit of
\* a task that returned while another task is still waiting.
C20_Witness ==
  /\ max_concurrent = 1
  /\ \E i, j, k \in TaskIds :
       /\ st[i] = "done"
       /\ st[j] = "granted"
       /\ st[k] = "waiting"

(***************************************************************************)
(* Confirmation and the output file                                        *)
(***************************************************************************)

\* main is past input() on the confirmed branch.
Confirmed == pc \in {"generating", "main_returned", "main_raised", "main_done"}

\* C21 as stated: after a declined prompt no call has been made, no file is
\* written and nothing has been printed since the answer.
C21_SilentDecline ==
  pc = "aborted" =>
     /\ tasks = <<>>
     /\ report_file = NoFile
     /\ console = <<>>

\* C21 amended: main stops at the prompt exactly when the answer is neither y
\* nor Y; it has then launched no task, made no call and written no file, and
\* has printed the one line "Aborted."; on the confirmed branch the file is
\* written in one step, from no file to the document of all the results, when
\* generate_all_blocks has returned a result for every task, and never again.
C21_DeclineAndSingleWrite ==
  /\ [](pc = "aborted" =>
          /\ confirm \notin {<<"y">>, <<"Y">>}
          /\ tasks = <<>>
          /\ report_file = NoFile
          /\ organized = NotOrganized
          /\ console = <<"Aborted.">>)
  /\ [](Confirmed => confirm \in {<<"y">>, <<"Y">>})
  /\ [](report_file # NoFile =>
          /\ pc = "main_done"
          /\ report_file = organized
          /\ report_file.metadata.total_blocks = Len(tasks)
          /\ \A i \in TaskIds :
               \E b \in Buckets : tasks[i].output_key \in DictKeys(report_file[b]))
  /\ [][report_file' # report_file =>
          /\ report_file = NoFile
          /\ pc = "main_returned"
          /\ Len(results) = Len(tasks)]_vars

\* C21 witness: the user answered "yes" to a catalog of three tasks and main
\* stopped.
C21_Witness ==
  /\ pc = "aborted"
  /\ confirm = <<"y","e","s">>
  /\ Len(main_tasks) = 3

(***************************************************************************)
(* Calls, permits and termination                                          *)
(***************************************************************************)

\* C22: a task whose call has been answered (returned or raised) is never in
\* the call again and its answer is never replaced, a task that has returned
\* stays returned with the same value, and a task enters the call only if it
\* has not been answered before: every task calls client.messages.create at
\* most once, so there are at most as many calls as tasks.
C22_NoRetry ==
  [][\A i \in DOMAIN st \cap DOMAIN st' :
        /\ response[i] # NoResponse =>
             /\ response'[i] = response[i]
             /\ st'[i] # "calling"
        /\ st[i] = "done" => st'[i] = "done" /\ ret'[i] = ret[i]
        /\ (st'[i] = "calling" /\ st[i] # "calling") => response[i] = NoResponse]_vars

\* C22 witness: a batch has returned in which a call failed and its task's
\* result is the error of that one call.
C22_Witness ==
  /\ Returned
  /\ Len(tasks) >= 2
  /\ \E i \in TaskIds :
       /\ response[i] # NoResponse
       /\ ~response[i].ok
       /\ ErrorTagged(ret[i])

\* The exit path task i took: which return statement of generate_block.
ExitPath(i) ==
  IF response[i] # NoResponse
    THEN (IF response[i].ok THEN "success" ELSE "generate failure")
    ELSE LET b == BeforeCall(tables, tasks[i])
         IN IF b.do = "raise" THEN "raised"
            ELSE IF NotTemplate(PromptsGet(tables, tasks[i].block_type))
              THEN "unknown block type"
              ELSE "missing parameter"

\* C24: from the launch of the tasks on, the permits held by tasks (tasks in
\* the call, and waiters that were handed a permit) plus the semaphore's
\* counter equal max_concurrent; no task that has left generate_block holds a
\* permit, whichever way it left; and when generate_all_blocks has returned
\* the counter is max_concurrent again.
C24_PermitsConserved ==
  Launched =>
     /\ Cardinality(PermitHolders) + sem_value = max_concurrent
     /\ sem_value >= 0
     /\ \A i \in TaskIds : st[i] = "done" => i \notin PermitHolders
     /\ Returned => sem_value = max_concurrent /\ PermitHolders = {}

\* C24 witness: with two permits, a task left by "unknown block type", one by
\* a failed call and one by a call that returned, and the batch has returned.
C24_Witness ==
  /\ pc = "returned"
  /\ max_concurrent = 2
  /\ sem_value = 2
  /\ {ExitPath(i) : i \in TaskIds}
       = {"unknown block type", "generate failure", "success"}

\* generate_all_blocks is inside its loop.
Running == pc \in {"generating", "direct"}

\* No task of the batch raises while it renders its template.
NoRenderFault == \A i \in TaskIds : BeforeCall(tables, tasks[i]).do # "raise"

\* C23: under fair scheduling, a batch with max_concurrent >= 1 in which no
\* rendering raises leads to every task having left generate_block with a
\* result (so each obtained a permit) and to generate_all_blocks returning
\* with one result per task; and a state in which a call has failed while
\* tasks are queued for a permit leads to no task being queued.
C23_Completion ==
  /\ (Running /\ max_concurrent >= 1 /\ NoRenderFault)
       ~> (\A i \in TaskIds : Finished(i))
  /\ (Running /\ max_concurrent >= 1 /\ NoRenderFault)
       ~> (Returned /\ Len(results) = Len(tasks))
  /\ (/\ Running /\ max_concurrent >= 1 /\ NoRenderFault
      /\ FailedCalls # {}
      /\ \E i \in TaskIds : st[i] = "waiting")
       ~> (\A i \in TaskIds : st[i] # "waiting")

\* C23 witness: with one permit and three tasks, the first call to be answered
\* failed, the two tasks queued behind it were served, and the batch returned.
C23_Witness ==
  /\ pc = "returned"
  /\ max_concurrent = 1
  /\ Len(tasks) = 3
  /\ Len(results) = 3
  /\ ~response[done[1]].ok
  /\ response[done[2]].ok
  /\ response[done[3]].ok

(***************************************************************************)
(* Error outcomes                                                          *)
(***************************************************************************)

UnknownTypePrefix ==
  <<"E","R","R","O","R",":"," ","U","n","k","n","o","w","n"," ",
    "b","l","o","c","k"," ","t","y","p","e"," ">>

\* Tasks whose block type has no template in PROMPTS, or an empty one.
WithoutTemplate ==
  {i \in TaskIds :
     \/ \A k \in 1..Len(tables.PROMPTS) :
           tables.PROMPTS[k].block_type # tasks[i].block_type
     \/ \E k \in 1..Len(tables.PROMPTS) :
           /\ tables.PROMPTS[k].block_type = tasks[i].block_type
           /\ tables.PROMPTS[k].template.empty}

\* C25: a task whose block type has no template, or an empty one, returns the
\* error-tagged result "ERROR: Unknown block type " and the block type under
\* its own key, and no call is made for it (its outcome is neither that of a
\* missing parameter nor that of a failed call); in the document it is one of
\* the results counted by metadata.errors.
C25_UnknownBlockType ==
  /\ \A i \in WithoutTemplate :
        /\ ~Called(i)
        /\ st[i] # "calling"
        /\ st[i] = "done" =>
             /\ ret[i] = [key |-> tasks[i].output_key,
                          content |-> UnknownTypePrefix \o tasks[i].block_type,
                          error |-> TRUE]
             /\ ~startswith(ret[i].content, MissingParamPrefix)
  /\ Organized =>
        organized.metadata.errors
          = Cardinality(WithoutTemplate)
            + Cardinality({i \in TaskIds \ WithoutTemplate : ErrorTagged(ret[i])})

\* C25 witness: the document of a batch with a task of type impact_critical
\* (no template), a failed call and a call that returned: two errors.
C25_Witness ==
  /\ Organized
  /\ Cardinality(WithoutTemplate) = 1
  /\ Cardinality(FailedCalls) = 1
  /\ organized.metadata.errors = 2
  /\ Len(results) = 3

\* Tasks whose template holds a field that format cannot fill and that is not
\* a missing named parameter (a positional field: IndexError).
RenderFaulty ==
  {i \in TaskIds :
     LET template == PromptsGet(tables, tasks[i].block_type)
     IN /\ ~NotTemplate(template)
        /\ \E k \in 1..Len(template.fields) :
             /\ "index" \in DOMAIN template.fields[k]
             /\ \A g \in 1..(k - 1) :
                  /\ "name" \in DOMAIN template.fields[g]
                  /\ template.fields[g].name \in DOMAIN tasks[i].params}

\* C26: a task whose rendering raises something other than KeyError leaves
\* generate_block with that exception and not with a result, while a task
\* that lacks a named parameter leaves with an error result; the exception
\* leaves generate_all_blocks when the loop awaits that task's completion,
\* after the results of the completions before it were appended; a batch with
\* such a task never returns a result list, and nothing is organized or
\* written.
C26_RenderFaultPropagates ==
  /\ \A i \in RenderFaulty :
        /\ ~Called(i)
        /\ st[i] = "done" => ret[i] = [exception |-> "IndexError"]
  /\ \A i \in TaskIds :
        (st[i] = "done" /\ LacksParam(i)) => ErrorTagged(ret[i])
  /\ \A k \in 1..Len(results) : "exception" \notin DOMAIN results[k]
  /\ pc \in {"raised", "main_raised"} =>
        /\ Len(results) < Len(done)
        /\ done[Len(results) + 1] \in RenderFaulty
        /\ \A k \in 1..Len(results) : results[k] = ret[done[k]]
  /\ RenderFaulty # {} =>
        /\ ~Returned
        /\ ~Organized
        /\ report_file = NoFile

\* C26 witness: generate_all_blocks has raised after appending one result,
\* while the call of another task is still unanswered.
C26_Witness ==
  /\ pc = "raised"
  /\ Len(results) = 1
  /\ \E i \in TaskIds : st[i] = "calling"

\* C27: once generate_all_blocks(0) has launched the tasks of a non-empty
\* catalog, no task holds a permit or is in the call, no call is ever
\* answered, nothing is appended to results and the function has not
\* returned; when every task has queued on the semaphore no step is possible
\* any more.
C27_ZeroPermits ==
  (Launched /\ max_concurrent = 0 /\ tasks # <<>>) =>
     /\ pc = "direct"
     /\ \A i \in TaskIds : st[i] \in {"created", "waiting"} /\ ~Called(i)
     /\ PermitHolders = {}
     /\ sem_value = 0
     /\ done = <<>>
     /\ results = <<>>
     /\ (\A i \in TaskIds : st[i] = "waiting") => ~ENABLED Next

\* C27 witness: generate_all_blocks(0) with three tasks, all of them queued.
C27_Witness ==
  /\ pc = "direct"
  /\ max_concurrent = 0
  /\ Len(tasks) = 3
  /\ Len(waiters) = 3
  /\ \A i \in TaskIds : st[i] = "waiting"

(***************************************************************************)
(* Duplicate keys and the prefix tests                                     *)
(***************************************************************************)

\* The positions in rs of the results keyed `key`.
Keyed(rs, key) == {k \in 1..Len(rs) : rs[k].key = key}

Max(S) == CHOOSE m \in S : \A n \in S : n <= m

Min(S) == CHOOSE m \in S : \A n \in S : m <= n

\* The contents stored under `key` in the buckets of a document.
ContentsAt(org, key) ==
  UNION {{org[b][k].content : k \in {h \in 1..Len(org[b]) : org[b][h].key = key}} :
           b \in Buckets}

Reverse(rs) == [k \in 1..Len(rs) |-> rs[Len(rs) + 1 - k]]

\* C28: when two results of the list share a key, the document holds for each
\* key one entry, in one bucket, with the content of the last result of that
\* key; the bucket sizes add up to less than metadata.total_blocks, which is
\* the length of the list; and the same list in reverse order gives for each
\* key the content of its first result instead.
C28_LaterWins ==
  (Organized /\ ~DistinctResultKeys) =>
     /\ \A k \in 1..Len(results) :
          LET key == results[k].key
          IN /\ Cardinality({b \in Buckets : key \in DictKeys(organized[b])}) = 1
             /\ \A b \in Buckets :
                  Cardinality({h \in 1..Len(organized[b]) : organized[b][h].key = key}) <= 1
             /\ ContentsAt(organized, key)
                  = {results[Max(Keyed(results, key))].content}
             /\ ContentsAt(organize_results(Reverse(results),
                                            organized.metadata.generated_at), key)
                  = {results[Min(Keyed(results, key))].content}
     /\ organized.metadata.total_blocks = Len(results)
     /\ SumOfSizes(organized, BucketNames) < organized.metadata.total_blocks

\* C28 witness: the document of two results keyed roadmap_low with different
\* contents and a third result: roadmaps holds one entry, that of the later.
C28_Witness ==
  /\ Organized
  /\ Len(results) = 3
  /\ \E a, b \in 1..Len(results) :
       /\ a < b
       /\ results[a].key = results[b].key
       /\ results[a].content # results[b].content
       /\ organized["roadmaps"] = <<[key |-> results[b].key,
                                     content |-> results[b].content]>>

\* The prefix tests a key passes.
Hits(key) == {a \in 1..Len(PrefixTests) : startswith(key, PrefixTests[a].prefix)}

\* C29: no prefix of the if/elif chain is a prefix of another one; every key of
\* the catalog passes at most one test, and the bucket the chain assigns it to
\* is that of whichever test it passes (the else bucket when it passes none),
\* so the order of the tests does not matter.
C29_PrefixFree ==
  /\ \A a, b \in 1..Len(PrefixTests) :
       a # b => ~startswith(PrefixTests[b].prefix, PrefixTests[a].prefix)
  /\ pc # "start" =>
       \A k \in 1..Len(main_tasks) :
         LET key == main_tasks[k].output_key
         IN /\ Cardinality(Hits(key)) <= 1
            /\ \A a \in Hits(key) : Branches(key) = <<PrefixTests[a].bucket>>
            /\ Hits(key) = {} => Branches(key) = <<ElseBucket>>

\* C29 witness: the shipped catalog is built; its keys pass each of the nine
\* tests, one each, and seven keys pass none.
C29_Witness ==
  /\ tables = ShippedTables
  /\ pc = "confirm"
  /\ \A a \in 1..Len(PrefixTests) :
       \E k \in 1..Len(main_tasks) : Hits(main_tasks[k].output_key) = {a}
  /\ Cardinality({k \in 1..Len(main_tasks) : Hits(main_tasks[k].output_key) = {}}) = 7

\* The answer of a call that succeeds.
Succeeds == [ok |-> TRUE, text |-> <<"generated text">>, output_tokens |-> 3]

\* The results of a run of ts in which every call made succeeds.
ResultsWithoutFailure(T, ts) ==
  [k \in 1..Len(ts) |->
     LET b == BeforeCall(T, ts[k])
     IN IF b.do = "call" THEN AfterCall(ts[k], Succeeds) ELSE b.value]

\* C30: every task of the catalog built from the shipped tables has a block
\* type with a non-empty template and params naming every field of it, so
\* generate_block reaches the call for each; when every call succeeds no result
\* carries the error tag and the document's metadata.errors is 0.
C30_NoErrorWithoutFailure ==
  pc # "start" =>
    /\ \A k \in 1..Len(main_tasks) :
         LET template == PromptsGet(tables, main_tasks[k].block_type)
         IN /\ ~NotTemplate(template)
            /\ \A f \in 1..Len(template.fields) :
                 ~Unfilled(template.fields[f], main_tasks[k].params)
            /\ BeforeCall(tables, main_tasks[k]).do = "call"
    /\ LET rs == ResultsWithoutFailure(tables, main_tasks)
       IN /\ \A k \in 1..Len(rs) : Get(rs[k], "error", FALSE) = FALSE
          /\ organize_results(rs, "2025-01-01T09:00:00").metadata.errors = 0
          /\ organize_results(rs, "2025-01-01T09:00:00").metadata.total_blocks
               = Len(main_tasks)

\* C30 witness: the catalog of the shipped tables, 144 tasks over the eighteen
\* block types of PROMPTS, every one of them reaching the call.
C30_Witness ==
  /\ tables = ShippedTables
  /\ pc = "confirm"
  /\ Len(main_tasks) = 144
  /\ {main_tasks[k].block_type : k \in 1..Len(main_tasks)}
       = {PROMPTS[k].block_type : k \in 1..Len(PROMPTS)}
  /\ \A k \in 1..Len(main_tasks) : BeforeCall(tables, main_tasks[k]).do = "call"

==============================================================================
